---- MODULE Spec2Model ----
(***************************************************************************)
(* A model of the Android resource validator of src/validator.py:          *)
(* AndroidResourceValidator.validate_xml_file (one call, statement by      *)
(* statement, on an instance's shared accumulators), its rule sets, and    *)
(* validate_project_resources (the project scan and its summary).          *)
(*                                                                         *)
(* Text is modelled at two levels.  Paths are sequences of components,     *)
(* each a sequence of characters, so that Python's substring test          *)
(* ("layout" in str(parent)) is computed as the code computes it.  File    *)
(* content is a sequence of lexical tokens, each standing for the piece of *)
(* text one of the validator's patterns matches, plus a flag saying        *)
(* whether xml.etree accepts the text (the parser is a library).           *)
(***************************************************************************)
EXTENDS Integers, Sequences, FiniteSets, TLC

VARIABLES
    hashseed,   \* the process's string-hash seed: fixes the iteration order of set(ids)
    acc,        \* acc[i]: validator instance i's accumulators [errors, warnings]
    used,       \* used[i]: a call has started on instance i since it was constructed
    inst,       \* inst[t]: the instance thread t calls
    loc,        \* loc[t]: thread t's frame inside validate_xml_file
    ghost,      \* ghost[t]: history of thread t's current call (not program state)
    scan,       \* the frame of validate_project_resources (main thread)
    report,     \* the frame of show_validation_report: its argument and what it printed
    fixes,      \* the frame of suggest_fixes: its argument and what it returned
    fs,         \* the disk the file manager works on: a file, the backups, the history
    fm          \* the frame of the file manager's current call, and its history

vars == <<hashseed, acc, used, inst, loc, ghost, scan, report, fixes, fs, fm>>

----------------------------------------------------------------------------
(* Characters and strings.                                                 *)

RECURSIVE Join(_)
\* "/".join(parts), each part a sequence of characters
Join(parts) ==
    IF Len(parts) = 0 THEN <<>>
    ELSE IF Len(parts) = 1 THEN parts[1]
    ELSE parts[1] \o <<"/">> \o Join(Tail(parts))

\* Python's `sub in s` for strings
IsSubstr(sub, s) ==
    \E i \in 0..(Len(s) - Len(sub)) : SubSeq(s, i + 1, i + Len(sub)) = sub

s_layout == <<"l","a","y","o","u","t">>
s_values == <<"v","a","l","u","e","s">>
s_xml == <<".","x","m","l">>
s_strings_xml == <<"s","t","r","i","n","g","s">> \o s_xml
s_colors_xml == <<"c","o","l","o","r","s">> \o s_xml
s_styles_xml == <<"s","t","y","l","e","s">> \o s_xml
s_manifest_xml ==
    <<"A","n","d","r","o","i","d","M","a","n","i","f","e","s","t">> \o s_xml

\* other names the model's project trees use
s_res == <<"r","e","s">>
s_proj == <<"p","r","o","j">>
s_layout_app == s_layout \o <<"_","a","p","p">>
s_layout_land == s_layout \o <<"-","l","a","n","d">>
s_xmldir == <<"x","m","l">>
s_main_xml == <<"m","a","i","n">> \o s_xml
s_dimens_xml == <<"d","i","m","e","n","s">> \o s_xml
s_prefs_xml == <<"p","r","e","f","s">> \o s_xml

----------------------------------------------------------------------------
(* pathlib: a path is a non-empty sequence of components.                  *)

\* Path(p).name
PathName(path) == path[Len(path)]

\* str(Path(p).parent): the whole parent path; "." for a bare filename
ParentStr(path) ==
    IF Len(path) = 1 THEN <<".">> ELSE Join(SubSeq(path, 1, Len(path) - 1))

\* the name of the immediate parent directory (Path(p).parent.name)
ParentName(path) ==
    IF Len(path) = 1 THEN <<>> ELSE path[Len(path) - 1]

----------------------------------------------------------------------------
(* Content.  A content is [none, wf, toks]: none is Python's None (no      *)
(* content), wf says whether ET.fromstring accepts the text, toks are the  *)
(* pieces of the text the validator's patterns look at, in text order:     *)
(*   open   <<tag>>            the text  <tag                              *)
(*   dim    <<prefix, attr, v>> the text  prefix:attr="v"                  *)
(*   id     <<plus, name>>     the text  android:id="@+id/name" (plus "+") *)
(*                             or        android:id="@id/name"  (plus "")  *)
(*   ref    <<type, name>>     the text  "@type/name"                      *)
(*   string <<text>>           the text  <string name="n">text</string>    *)
(*   amp    <<>>               a bare    &                                 *)
(*   entity <<name>>           the text  &name;  (an escaped character)    *)
(*   color  <<value>>          the text  <color name="n">value</color>     *)
(*   parent <<value>>          the text  parent="value"                    *)
(*   perm   <<name>>           <uses-permission android:name="name"        *)

Tok(t, p) == [t |-> t, p |-> p]

NoneC == [none |-> TRUE, wf |-> FALSE, toks |-> <<>>]

Text(wf, toks) == [none |-> FALSE, wf |-> wf, toks |-> toks]

\* the tokens of kind t, in text order (re.findall)
RECURSIVE FindAll(_, _)
FindAll(toks, kinds) ==
    IF Len(toks) = 0 THEN <<>>
    ELSE (IF Head(toks).t \in kinds THEN <<Head(toks)>> ELSE <<>>)
         \o FindAll(Tail(toks), kinds)

\* a message appended to an accumulator: k is "E" (self.errors) or "W"
\* (self.warnings), m the fixed text, a the interpolated value
Emit(k, m, a) == [k |-> k, m |-> m, a |-> a]

----------------------------------------------------------------------------
(* The rule sets: each is the sequence of appends the code makes, in the   *)
(* order it makes them.                                                    *)

\* _validate_xml_syntax: ET.fromstring(content)
SyntaxError == Emit("E", "Error de sintaxis XML", <<>>)

root_tags == {"LinearLayout", "RelativeLayout", "ConstraintLayout", "FrameLayout",
              "TableLayout", "ScrollView",
              "androidx.constraintlayout.widget.ConstraintLayout"}

known_ref_types == {"string", "color", "dimen", "style", "drawable", "layout",
                    "id", "android"}

\* mutant of RefOf: the '+' of a declaration is not part of the type
RefOfIdAsId(tok) ==
    IF tok.t = "ref" THEN <<tok.p[1], tok.p[2]>>
    ELSE <<"id", tok.p[2]>>

\* re.findall(r'@([^/]+)/([^"\s>]+)', content): every @type/name in the text,
\* the one inside android:id="@+id/name" included (its type is "+id")
RefOf(tok) ==
    IF tok.t = "ref" THEN <<tok.p[1], tok.p[2]>>
    ELSE <<(IF tok.p[1] = "+" THEN "+id" ELSE "id"), tok.p[2]>>

References(toks) ==
    LET hits == FindAll(toks, {"ref", "id"})
    IN  [i \in 1..Len(hits) |-> RefOf(hits[i])]

\* _validate_resource_references: the loop over the references
RECURSIVE RefWarnings(_)
RefWarnings(refs) ==
    IF Len(refs) = 0 THEN <<>>
    ELSE (IF Head(refs)[1] \in known_ref_types THEN <<>>
          ELSE <<Emit("W", "Tipo de recurso posiblemente invalido",
                      <<"@", Head(refs)[1], "/", Head(refs)[2]>>)>>)
         \o RefWarnings(Tail(refs))

\* mutant of ValidateResourceReferences: a reference is reported once, however
\* often it occurs (the loop runs over set(references))
ValidateResourceReferencesDistinct(toks) ==
    LET refs == References(toks)
        IsFirst(i) == \A j \in 1..(i - 1) : refs[j] # refs[i]
        kept == SelectSeq([i \in 1..Len(refs) |-> i], IsFirst)
    IN  RefWarnings([k \in 1..Len(kept) |-> refs[kept[k]]])

ValidateResourceReferences(toks) == RefWarnings(References(toks))

\* mutant of IdNames: the pattern has no '?', only @+id/ is extracted
IdNamesDeclaredOnly(toks) ==
    LET IsDeclaration(tok) == tok.t = "id" /\ tok.p[1] = "+"
        hits == SelectSeq(toks, IsDeclaration)
    IN  [i \in 1..Len(hits) |-> hits[i].p[2]]

\* re.findall(r'android:id="@\+?id/([^"]+)"', content)
IdNames(toks) ==
    LET hits == FindAll(toks, {"id"})
    IN  [i \in 1..Len(hits) |-> hits[i].p[2]]

Count(s, x) == Cardinality({i \in 1..Len(s) : s[i] = x})

\* iterating set(S): an order the process's hash seed fixes (seed ranks the
\* names; the same set is iterated in the same order throughout the process)
RECURSIVE SetIter(_, _)
SetIter(seed, S) ==
    IF S = {} THEN <<>>
    ELSE LET x == CHOOSE y \in S : \A z \in S : seed[y] <= seed[z]
         IN  <<x>> \o SetIter(seed, S \ {x})

\* _validate_duplicate_ids
DupErrors(duplicates) ==
    [i \in 1..Len(duplicates) |-> Emit("E", "ID duplicado", <<duplicates[i]>>)]

\* mutant of ValidateDuplicateIds: the loop runs over ids, not over set(ids)
ValidateDuplicateIdsPerOccurrence(seed, toks) ==
    LET ids == IdNames(toks)
        Repeated(x) == Count(ids, x) > 1
    IN  DupErrors(SelectSeq(ids, Repeated))

ValidateDuplicateIds(seed, toks) ==
    LET ids == IdNames(toks)
        duplicates == SetIter(seed, {ids[i] : i \in {j \in 1..Len(ids) : Count(ids, ids[j]) > 1}})
    IN  DupErrors(duplicates)

\* _validate_layout_file
EmptyDim(tok) ==
    /\ tok.p[1] = "android"
    /\ tok.p[2] \in {"layout_width", "layout_height"}
    /\ tok.p[3] = ""

ValidateLayoutFile(seed, toks) ==
    LET opens == FindAll(toks, {"open"})
        dims == FindAll(toks, {"dim"})
    IN  (IF \E i \in 1..Len(opens) : opens[i].p[1] \in root_tags THEN <<>>
         ELSE <<Emit("W", "Layout podria necesitar un ViewGroup root valido", <<>>)>>)
        \o (IF \E i \in 1..Len(dims) : EmptyDim(dims[i])
            THEN <<Emit("E", "Atributos layout_width o layout_height vacios", <<>>)>>
            ELSE <<>>)
        \o ValidateResourceReferences(toks)
        \o ValidateDuplicateIds(seed, toks)

----------------------------------------------------------------------------
(* The values rule sets.                                                   *)

\* mutant of HasBareSpecial: only a bare & counts
HasBareSpecialAmpOnly(tok) == tok.t = "amp"

\* the tokens whose text holds a '<', '>' or '&' that no letters and ';' follow:
\* every tag does (r'[&<>](?![a-zA-Z]+;)')
HasBareSpecial(tok) == tok.t \in {"open", "string", "color", "perm", "amp"}

\* _validate_strings_file
ValidateStringsFile(toks) ==
    LET strs == FindAll(toks, {"string"})
    IN  (IF \E i \in 1..Len(strs) : strs[i].p[1] = <<>>
         THEN <<Emit("W", "Se encontraron strings vacios", <<>>)>> ELSE <<>>)
        \o (IF \E i \in 1..Len(toks) : HasBareSpecial(toks[i])
            THEN <<Emit("W", "Posibles caracteres especiales sin escapar", <<>>)>>
            ELSE <<>>)

HexDigits == {"0","1","2","3","4","5","6","7","8","9",
              "A","B","C","D","E","F","a","b","c","d","e","f"}

RECURSIVE Strip(_)
\* str.strip()
Strip(v) ==
    IF Len(v) = 0 THEN v
    ELSE IF Head(v) = " " THEN Strip(Tail(v))
    ELSE IF v[Len(v)] = " " THEN Strip(SubSeq(v, 1, Len(v) - 1))
    ELSE v

\* re.match(r'^#[0-9A-Fa-f]{3,8}$', v)
ColorMatch(v) ==
    /\ Len(v) >= 1
    /\ v[1] = "#"
    /\ Len(v) - 1 >= 3
    /\ Len(v) - 1 <= 8
    /\ \A i \in 2..Len(v) : v[i] \in HexDigits

\* _validate_colors_file: the loop over color_matches
RECURSIVE ColorErrors(_)
ColorErrors(colors) ==
    IF Len(colors) = 0 THEN <<>>
    ELSE (IF ColorMatch(Strip(Head(colors).p[1])) THEN <<>>
          ELSE <<Emit("E", "Formato de color invalido", Head(colors).p[1])>>)
         \o ColorErrors(Tail(colors))

ValidateColorsFile(toks) == ColorErrors(FindAll(toks, {"color"}))

\* str.startswith
StartsWith(v, prefix) ==
    Len(v) >= Len(prefix) /\ SubSeq(v, 1, Len(prefix)) = prefix

s_style_ref == <<"@","s","t","y","l","e","/">>
s_android_colon == <<"a","n","d","r","o","i","d",":">>

\* _validate_styles_file: the loop over parent_matches
RECURSIVE ParentWarnings(_)
ParentWarnings(parents) ==
    IF Len(parents) = 0 THEN <<>>
    ELSE (IF StartsWith(Head(parents).p[1], s_style_ref)
             \/ StartsWith(Head(parents).p[1], s_android_colon)
          THEN <<>>
          ELSE <<Emit("W", "Referencia de estilo padre podria ser invalida",
                      Head(parents).p[1])>>)
         \o ParentWarnings(Tail(parents))

ValidateStylesFile(toks) == ParentWarnings(FindAll(toks, {"parent"}))

\* _validate_values_file
ValidateValuesFile(toks, filename) ==
    IF filename = s_strings_xml THEN ValidateStringsFile(toks)
    ELSE IF filename = s_colors_xml THEN ValidateColorsFile(toks)
    ELSE IF filename = s_styles_xml THEN ValidateStylesFile(toks)
    ELSE <<>>

----------------------------------------------------------------------------
(* The manifest rule set.                                                  *)

required_elements == <<"manifest", "application">>

\* mutant of ValidateManifestFile: the loop stops at the first missing element
ValidateManifestFileFirstMissing(toks) ==
    LET opens == FindAll(toks, {"open"})
        perms == FindAll(toks, {"perm"})
        has(e) == \E i \in 1..Len(opens) : opens[i].p[1] = e
    IN  (IF ~has(required_elements[1])
         THEN <<Emit("E", "Elemento requerido faltante", <<required_elements[1]>>)>>
         ELSE IF ~has(required_elements[2])
         THEN <<Emit("E", "Elemento requerido faltante", <<required_elements[2]>>)>>
         ELSE <<>>)
        \o (IF Len(perms) # Cardinality({perms[i].p[1] : i \in 1..Len(perms)})
            THEN <<Emit("W", "Posibles permisos duplicados", <<>>)>> ELSE <<>>)

\* mutant of ValidateManifestFile: one warning for every repeated occurrence
ValidateManifestFilePerDuplicate(toks) ==
    LET opens == FindAll(toks, {"open"})
        perms == FindAll(toks, {"perm"})
        missing(e) == IF \E i \in 1..Len(opens) : opens[i].p[1] = e THEN <<>>
                      ELSE <<Emit("E", "Elemento requerido faltante", <<e>>)>>
        extra == Len(perms) - Cardinality({perms[i].p[1] : i \in 1..Len(perms)})
    IN  missing(required_elements[1]) \o missing(required_elements[2])
        \o [i \in 1..extra |-> Emit("W", "Posibles permisos duplicados", <<>>)]

\* _validate_manifest_file
ValidateManifestFile(toks) ==
    LET opens == FindAll(toks, {"open"})
        perms == FindAll(toks, {"perm"})
        missing(e) == IF \E i \in 1..Len(opens) : opens[i].p[1] = e THEN <<>>
                      ELSE <<Emit("E", "Elemento requerido faltante", <<e>>)>>
    IN  missing(required_elements[1]) \o missing(required_elements[2])
        \o (IF Len(perms) # Cardinality({perms[i].p[1] : i \in 1..Len(perms)})
            THEN <<Emit("W", "Posibles permisos duplicados", <<>>)>> ELSE <<>>)

----------------------------------------------------------------------------
(* The dispatcher of validate_xml_file.                                    *)

\* mutant of RuleSetOf: the chain tests "values" before "layout"
RuleSetOfValuesFirst(path) ==
    IF IsSubstr(s_values, ParentStr(path)) THEN "values"
    ELSE IF IsSubstr(s_layout, ParentStr(path)) THEN "layout"
    ELSE IF PathName(path) = s_manifest_xml THEN "manifest"
    ELSE "none"

\* which branch of the if/elif chain a path takes
RuleSetOf(path) ==
    IF IsSubstr(s_layout, ParentStr(path)) THEN "layout"
    ELSE IF IsSubstr(s_values, ParentStr(path)) THEN "values"
    ELSE IF PathName(path) = s_manifest_xml THEN "manifest"
    ELSE "none"

\* the appends the chosen rule set makes for a content, in order
RuleEmissions(seed, path, toks) ==
    LET rs == RuleSetOf(path)
    IN  IF rs = "layout" THEN ValidateLayoutFile(seed, toks)
        ELSE IF rs = "values" THEN ValidateValuesFile(toks, PathName(path))
        ELSE IF rs = "manifest" THEN ValidateManifestFile(toks)
        ELSE <<>>

----------------------------------------------------------------------------
(* validate_xml_file, statement by statement.  A frame l holds the call's  *)
(* locals; a holds the instance's accumulators [errors, warnings].  Each    *)
(* step is one statement (for a rule set: one append) and returns the new  *)
(* frame and accumulators.                                                 *)

\* __init__: a new instance's accumulators
InitAcc == [errors |-> <<>>, warnings |-> <<>>]

NoResult == [valid |-> FALSE, errors |-> <<>>, warnings |-> <<>>]

\* a file as the call finds it: readable or not, its text, and whether scanning
\* the text raises an unexpected exception (MemoryError, ...)
File(readable, content, fault) ==
    [readable |-> readable, content |-> content, fault |-> fault]

IdleFrame ==
    [pc |-> "idle", path |-> <<>>, arg |-> NoneC, disk |-> File(FALSE, NoneC, FALSE),
     content |-> NoneC, xml_valid |-> FALSE, ruleset |-> "none", todo |-> <<>>,
     valid |-> FALSE, rerrors |-> <<>>, result |-> NoResult, opened |-> FALSE,
     shares |-> {}]

\* the call validate_xml_file(path, arg) with disk the file at path
CallFrame(path, arg, disk) ==
    [IdleFrame EXCEPT !.pc = "clearE", !.path = path, !.arg = arg, !.disk = disk]

ReadError == Emit("E", "No se pudo leer el archivo", <<>>)

\* the string an append adds
Msg(e) == [m |-> e.m, a |-> e.a]

\* mutant of StepClearErrors: the errors of the previous call are kept
StepClearErrorsSkipped(l, a) ==
    [l |-> [l EXCEPT !.pc = "clearW"], a |-> a]

\* line 22: self.errors.clear()
StepClearErrors(l, a) ==
    [l |-> [l EXCEPT !.pc = "clearW"], a |-> [a EXCEPT !.errors = <<>>]]

\* mutant of StepClearWarnings: the warnings of the previous call are kept
StepClearWarningsSkipped(l, a) ==
    [l |-> [l EXCEPT !.pc = "read"], a |-> a]

\* line 23: self.warnings.clear()
StepClearWarnings(l, a) ==
    [l |-> [l EXCEPT !.pc = "read"], a |-> [a EXCEPT !.warnings = <<>>]]

\* mutant of StepRead: the file is opened also when content is supplied
StepReadAlways(l, a) ==
    IF l.disk.readable
    THEN [l |-> [l EXCEPT !.pc = "syntax", !.opened = TRUE,
                          !.content = IF l.arg.none THEN l.disk.content ELSE l.arg],
          a |-> a]
    ELSE [l |-> [l EXCEPT !.pc = "done", !.opened = TRUE,
                          !.result = [valid |-> FALSE,
                                      errors |-> <<Msg(ReadError)>>,
                                      warnings |-> <<>>]],
          a |-> a]

\* lines 25-34: read the file when no content was passed
StepRead(l, a) ==
    IF ~l.arg.none THEN [l |-> [l EXCEPT !.pc = "syntax", !.content = l.arg], a |-> a]
    ELSE IF l.disk.readable
    THEN [l |-> [l EXCEPT !.pc = "syntax", !.opened = TRUE, !.content = l.disk.content],
          a |-> a]
    ELSE [l |-> [l EXCEPT !.pc = "done", !.opened = TRUE,
                          !.result = [valid |-> FALSE,
                                      errors |-> <<Msg(ReadError)>>,
                                      warnings |-> <<>>]],
          a |-> a]

\* mutant of StepSyntax: a syntax failure skips the rule set
StepSyntaxShortCircuit(l, a) ==
    IF l.content.wf THEN [l |-> [l EXCEPT !.pc = "dispatch", !.xml_valid = TRUE], a |-> a]
    ELSE [l |-> [l EXCEPT !.pc = "retV", !.xml_valid = FALSE],
          a |-> [a EXCEPT !.errors = Append(@, Msg(SyntaxError))]]

\* line 37 and lines 54-64: xml_valid = self._validate_xml_syntax(content)
StepSyntax(l, a) ==
    IF l.content.wf THEN [l |-> [l EXCEPT !.pc = "dispatch", !.xml_valid = TRUE], a |-> a]
    ELSE [l |-> [l EXCEPT !.pc = "dispatch", !.xml_valid = FALSE],
          a |-> [a EXCEPT !.errors = Append(@, Msg(SyntaxError))]]

\* lines 40-46: choose the rule set and scan the content (the patterns read
\* only the local content; the appends follow one by one)
StepDispatch(l, a, seed) ==
    IF l.arg.none /\ l.disk.fault THEN [l |-> [l EXCEPT !.pc = "raised"], a |-> a]
    ELSE [l |-> [l EXCEPT !.pc = "rules", !.ruleset = RuleSetOf(l.path),
                          !.todo = RuleEmissions(seed, l.path, l.content.toks)],
          a |-> a]

\* one self.errors.append / self.warnings.append of the rule set
StepRule(l, a) ==
    IF Len(l.todo) = 0 THEN [l |-> [l EXCEPT !.pc = "retV"], a |-> a]
    ELSE LET e == Head(l.todo)
         IN  [l |-> [l EXCEPT !.todo = Tail(@)],
              a |-> IF e.k = "E" THEN [a EXCEPT !.errors = Append(@, Msg(e))]
                    ELSE [a EXCEPT !.warnings = Append(@, Msg(e))]]

\* mutant of StepReturnValid: valid is the syntax check's outcome alone
StepReturnValidSyntaxOnly(l, a) ==
    [l |-> [l EXCEPT !.pc = "retE", !.valid = l.xml_valid], a |-> a]

\* line 49: "valid": xml_valid and len(self.errors) == 0
StepReturnValid(l, a) ==
    [l |-> [l EXCEPT !.pc = "retE", !.valid = l.xml_valid /\ Len(a.errors) = 0], a |-> a]

\* what a returned dict holds when it is read with the accumulators at a:
\* a list of shares is the instance's own list object, and reads as that list
\* reads now; any other list is the dict's own
Held(result, shares, a) ==
    [result EXCEPT !.errors = IF "errors" \in shares THEN a.errors ELSE @,
                   !.warnings = IF "warnings" \in shares THEN a.warnings ELSE @]

\* mutant of StepReturnErrors: the dict is given self.errors itself
StepReturnErrorsAliased(l, a) ==
    [l |-> [l EXCEPT !.pc = "retW", !.rerrors = a.errors, !.shares = @ \cup {"errors"}],
     a |-> a]

\* line 50: "errors": self.errors.copy(), a new list
StepReturnErrors(l, a) ==
    [l |-> [l EXCEPT !.pc = "retW", !.rerrors = a.errors], a |-> a]

\* line 51: "warnings": self.warnings.copy(), and the return
StepReturnWarnings(l, a) ==
    [l |-> [l EXCEPT !.pc = "done",
                     !.result = [valid |-> l.valid, errors |-> l.rerrors,
                                 warnings |-> a.warnings]],
     a |-> a]

Running(l) == l.pc \notin {"idle", "done", "raised"}

\* the next statement of a running call
StepCall(l, a, seed) ==
    CASE l.pc = "clearE" -> StepClearErrors(l, a)
      [] l.pc = "clearW" -> StepClearWarnings(l, a)
      [] l.pc = "read" -> StepRead(l, a)
      [] l.pc = "syntax" -> StepSyntax(l, a)
      [] l.pc = "dispatch" -> StepDispatch(l, a, seed)
      [] l.pc = "rules" -> StepRule(l, a)
      [] l.pc = "retV" -> StepReturnValid(l, a)
      [] l.pc = "retE" -> StepReturnErrors(l, a)
      [] l.pc = "retW" -> StepReturnWarnings(l, a)

RECURSIVE Exec(_, _, _)
\* a call run to its end with no other thread on the instance
Exec(l, a, seed) ==
    IF ~Running(l) THEN [l |-> l, a |-> a]
    ELSE LET n == StepCall(l, a, seed) IN Exec(n.l, n.a, seed)

\* validate_xml_file(path, arg) called on an instance whose accumulators are a
ValidateXmlFile(a, seed, path, arg, disk) == Exec(CallFrame(path, arg, disk), a, seed)

----------------------------------------------------------------------------
(* The inputs the model draws from.                                        *)

cEmpty == Text(FALSE, <<>>)
cLayoutOk ==
    Text(TRUE, <<Tok("open", <<"LinearLayout">>),
                 Tok("dim", <<"android", "layout_width", "wrap_content">>),
                 Tok("ref", <<"string", "title">>)>>)
cLayoutIds ==
    Text(TRUE, <<Tok("open", <<"LinearLayout">>), Tok("id", <<"+", "a">>),
                 Tok("id", <<"+", "b">>), Tok("id", <<"+", "a">>),
                 Tok("id", <<"+", "b">>)>>)
cLayoutBad ==
    Text(FALSE, <<Tok("open", <<"TextView">>),
                  Tok("dim", <<"android", "layout_height", "">>)>>)
cLayoutRefIds ==
    Text(TRUE, <<Tok("open", <<"ScrollView">>), Tok("id", <<"", "b">>),
                 Tok("id", <<"", "a">>), Tok("id", <<"+", "b">>),
                 Tok("id", <<"", "a">>)>>)
cColors ==
    Text(TRUE, <<Tok("open", <<"resources">>), Tok("color", <<<<"#","F","F","F">>>>),
                 Tok("color", <<<<"#","1","2">>>>)>>)
cStrings ==
    Text(TRUE, <<Tok("open", <<"resources">>), Tok("string", <<<<>>>>)>>)
cStyles ==
    Text(TRUE, <<Tok("open", <<"resources">>), Tok("parent", <<<<"F","o","o">>>>),
                 Tok("parent", <<s_style_ref \o <<"x">>>>)>>)
cManifest ==
    Text(TRUE, <<Tok("open", <<"manifest">>), Tok("open", <<"application">>),
                 Tok("perm", <<"CAMERA">>), Tok("perm", <<"CAMERA">>)>>)
cManifestNoApp == Text(FALSE, <<Tok("open", <<"manifest">>)>>)

Contents == {cEmpty, cLayoutOk, cLayoutIds, cLayoutBad, cColors, cStrings, cStyles,
             cManifest, cManifestNoApp}

IdUniverse == {"a", "b"}

\* the hash seeds: every order of the ID names
Seeds ==
    {f \in [IdUniverse -> 1..Cardinality(IdUniverse)] :
        \A x, y \in IdUniverse : x # y => f[x] # f[y]}

\* the *.xml files under a root's res/ the model's projects hold
ResPaths(root) ==
    IF root = s_proj
    THEN {<<root, s_res, s_layout, s_main_xml>>, <<root, s_res, s_layout_land, s_main_xml>>,
          <<root, s_res, s_values, s_strings_xml>>, <<root, s_res, s_values, s_colors_xml>>,
          <<root, s_res, s_values, s_styles_xml>>, <<root, s_res, s_values, s_dimens_xml>>,
          <<root, s_res, s_xmldir, s_prefs_xml>>}
    ELSE {<<root, s_res, s_values, s_colors_xml>>, <<root, s_res, s_values, s_dimens_xml>>}

Roots == {s_proj, s_layout_app}

Paths ==
    UNION {ResPaths(r) \cup {<<r, s_manifest_xml>>} : r \in Roots} \cup {<<s_main_xml>>}

\* the files a call can find at its path
Disks ==
    {File(TRUE, c, FALSE) : c \in Contents}
    \cup {File(FALSE, NoneC, FALSE), File(TRUE, cLayoutIds, TRUE)}

\* the calls validate_xml_file(path) and validate_xml_file(path, content)
Inputs ==
    {[path |-> p, arg |-> NoneC, disk |-> d] : p \in Paths, d \in Disks}
    \cup {[path |-> p, arg |-> c, disk |-> d] :
            p \in Paths, c \in {cLayoutOk, cLayoutBad, cColors},
            d \in {File(FALSE, NoneC, FALSE), File(TRUE, cEmpty, FALSE)}}

----------------------------------------------------------------------------
(* Threads and instances.  The main thread is thread 1; the web server      *)
(* (Flask, threaded) runs a second request thread on the same               *)
(* self.validator.                                                          *)

Threads == {1, 2}

Instances == {1, 2}

Main == 1

\* mutant of AccSlot: the lists are class attributes, shared by all instances
AccSlotShared(i) == Main

\* the accumulators instance i owns: __init__ gives every instance its own lists
AccSlot(i) == i

IdleGhost == [fresh |-> FALSE, dirty |-> FALSE, interfered |-> FALSE]

IdleScan == [pc |-> "idle"]

IdleReport == [pc |-> "idle"]

\* the file manager is not part of the run
NoDisk == [file |-> "missing", backups |-> {}, history |-> [state |-> "missing", entries |-> <<>>]]

IdleManager == [pc |-> "idle"]

IdleFixes == [pc |-> "idle"]

InitCommon ==
    /\ hashseed \in Seeds
    /\ acc = [i \in Instances |-> InitAcc]
    /\ used = [i \in Instances |-> FALSE]
    /\ loc = [t \in Threads |-> IdleFrame]
    /\ ghost = [t \in Threads |-> IdleGhost]
    /\ scan = IdleScan
    /\ report = IdleReport
    /\ fixes = IdleFixes
    /\ fs = NoDisk
    /\ fm = IdleManager

\* thread t constructs a validator of its own: AndroidResourceValidator()
NewValidator(t) ==
    /\ ~Running(loc[t])
    /\ \E i \in Instances :
        /\ \A u \in Threads \ {t} : inst[u] # i
        /\ inst' = [inst EXCEPT ![t] = i]
        /\ acc' = [acc EXCEPT ![AccSlot(i)] = InitAcc]
        /\ used' = [used EXCEPT ![i] = FALSE]
    /\ loc' = [loc EXCEPT ![t] = IdleFrame]
    /\ ghost' = [ghost EXCEPT ![t] = IdleGhost]
    /\ UNCHANGED <<fs, fm, hashseed, scan, report, fixes>>

\* thread t enters validate_xml_file(in.path, in.arg)
Call(t, in) ==
    /\ ~Running(loc[t])
    /\ loc' = [loc EXCEPT ![t] = CallFrame(in.path, in.arg, in.disk)]
    /\ ghost' = [ghost EXCEPT ![t] = [fresh |-> ~used[inst[t]],
                                      dirty |-> acc[AccSlot(inst[t])] # InitAcc,
                                      interfered |-> FALSE]]
    /\ used' = [used EXCEPT ![inst[t]] = TRUE]
    /\ UNCHANGED <<fs, fm, hashseed, acc, inst, scan, report, fixes>>

\* thread t has executed one statement, n its outcome; a running call of
\* another thread on the same accumulators has now been interleaved with
Do(t, n) ==
    /\ loc' = [loc EXCEPT ![t] = n.l]
    /\ acc' = [acc EXCEPT ![AccSlot(inst[t])] = n.a]
    /\ ghost' = [u \in Threads |->
                    IF u # t /\ Running(loc[u]) /\ AccSlot(inst[u]) = AccSlot(inst[t])
                    THEN [ghost[u] EXCEPT !.interfered = TRUE] ELSE ghost[u]]
    /\ UNCHANGED <<fs, fm, hashseed, used, inst, scan, report, fixes>>

ClearErrors(t) ==
    /\ loc[t].pc = "clearE"
    /\ Do(t, StepClearErrors(loc[t], acc[AccSlot(inst[t])]))

ClearWarnings(t) ==
    /\ loc[t].pc = "clearW"
    /\ Do(t, StepClearWarnings(loc[t], acc[AccSlot(inst[t])]))

ReadContent(t) ==
    /\ loc[t].pc = "read"
    /\ Do(t, StepRead(loc[t], acc[AccSlot(inst[t])]))

CheckSyntax(t) ==
    /\ loc[t].pc = "syntax"
    /\ Do(t, StepSyntax(loc[t], acc[AccSlot(inst[t])]))

Dispatch(t) ==
    /\ loc[t].pc = "dispatch"
    /\ Do(t, StepDispatch(loc[t], acc[AccSlot(inst[t])], hashseed))

RuleAppend(t) ==
    /\ loc[t].pc = "rules"
    /\ Do(t, StepRule(loc[t], acc[AccSlot(inst[t])]))

ReturnValid(t) ==
    /\ loc[t].pc = "retV"
    /\ Do(t, StepReturnValid(loc[t], acc[AccSlot(inst[t])]))

ReturnErrors(t) ==
    /\ loc[t].pc = "retE"
    /\ Do(t, StepReturnErrors(loc[t], acc[AccSlot(inst[t])]))

ReturnWarnings(t) ==
    /\ loc[t].pc = "retW"
    /\ Do(t, StepReturnWarnings(loc[t], acc[AccSlot(inst[t])]))

ThreadNext(t, ins) ==
    \/ \E in \in ins : Call(t, in)
    \/ ClearErrors(t)
    \/ ClearWarnings(t)
    \/ ReadContent(t)
    \/ CheckSyntax(t)
    \/ Dispatch(t)
    \/ RuleAppend(t)
    \/ ReturnValid(t)
    \/ ReturnErrors(t)
    \/ ReturnWarnings(t)

(* Sequential use: the main thread makes one call after another on its     *)
(* instance, or constructs a new one between calls.                        *)
Init ==
    /\ InitCommon
    /\ inst = [t \in Threads |-> t]

Next == NewValidator(Main) \/ ThreadNext(Main, Inputs)

Spec == Init /\ [][Next]_vars

(* Concurrent use: two request threads, both on the server's one instance  *)
(* or each on an instance of its own.                                      *)
ConcInputs ==
    {[path |-> <<s_proj, s_res, s_layout, s_main_xml>>, arg |-> NoneC, disk |-> d] :
        d \in {File(TRUE, cLayoutOk, FALSE), File(TRUE, cLayoutRefIds, FALSE),
               File(TRUE, cLayoutBad, FALSE), File(FALSE, NoneC, FALSE)}}

InitConc ==
    /\ InitCommon
    /\ inst \in {[t \in Threads |-> 1], [t \in Threads |-> t]}

NextConc == \E t \in Threads : ThreadNext(t, ConcInputs)

SpecConc == InitConc /\ [][NextConc]_vars

(* One call of validate_xml_file(path), on an instance that is new or has   *)
(* been used, for every short text over the pieces the rule sets look at.  *)

MaxToks == 3

\* every sequence of at most n pieces of the set alphabet
TokSeqs(alphabet, n) == UNION {[1..k -> alphabet] : k \in 0..n}

\* pieces of a layout text
LayoutToks ==
    {Tok("id", <<"+", "a">>), Tok("id", <<"+", "b">>), Tok("id", <<"", "a">>),
     Tok("ref", <<"id", "a">>), Tok("ref", <<"string", "x">>), Tok("ref", <<"attr", "x">>),
     Tok("dim", <<"android", "layout_width", "">>),
     Tok("dim", <<"app", "layout_height", "">>),
     Tok("dim", <<"android", "layout_height", "wrap_content">>)}

\* the values between <color> and </color>
ColorValues ==
    {<<"#","1","2">>, <<"#","F","F","F">>, <<"#","a","b","c","d">>,
     <<"#","1","2","3","4","5">>, <<"#","F","F","0","0","F","F">>,
     <<"#","1","2","3","4","5","6","7">>, <<"#","8","0","F","F","0","0","f","f">>,
     <<"#","1","2","3","4","5","6","7","8","9">>, <<"#","Z","Z","Z","Z","Z","Z">>,
     <<" ","#","F","F","F"," ">>, <<"F","F","F">>, <<>>}

\* the types of the references @type/x of a layout text
RefTypes == known_ref_types \cup {"attr", "mipmap", "raw"}

RefToks == {Tok("ref", <<ty, "x">>) : ty \in RefTypes} \cup {Tok("id", <<"+", "a">>)}

ColorToks == {Tok("color", <<v>>) : v \in ColorValues}

\* pieces of a manifest text
ManifestToks ==
    {Tok("open", <<"manifest">>), Tok("open", <<"application">>),
     Tok("open", <<"activity">>), Tok("perm", <<"CAMERA">>), Tok("perm", <<"INTERNET">>)}

\* pieces of a strings.xml text: an empty and a non-empty <string>, a bare &
\* and the escaped characters &amp; and &lt;
StringsToks ==
    {Tok("string", <<<<>>>>), Tok("string", <<<<"x">>>>), Tok("amp", <<>>),
     Tok("entity", <<"amp">>), Tok("entity", <<"lt">>)}

\* the strings.xml texts: one that ET.fromstring accepts has a root tag and
\* no bare &; the others are any pieces, with or without a tag
StringsTexts ==
    {Text(TRUE, <<Tok("open", <<"resources">>)>> \o toks) :
        toks \in TokSeqs(StringsToks \ {Tok("amp", <<>>)}, MaxToks)}
    \cup {Text(FALSE, toks) :
            toks \in TokSeqs(StringsToks \cup {Tok("open", <<"resources">>)}, 2)}

\* the <uses-permission> elements of a manifest text
PermToks == {Tok("perm", <<"CAMERA">>), Tok("perm", <<"INTERNET">>)}

RuleInputs ==
    {[path |-> <<s_proj, s_res, s_layout, s_main_xml>>, arg |-> NoneC,
      disk |-> File(TRUE, Text(wf, toks), FALSE)] :
        wf \in BOOLEAN,
        toks \in TokSeqs(LayoutToks, MaxToks) \cup TokSeqs(RefToks, 2) \cup {cLayoutIds.toks}}
    \cup {[path |-> <<s_proj, s_res, s_values, s_colors_xml>>, arg |-> NoneC,
           disk |-> File(TRUE, Text(wf, toks), FALSE)] :
             wf \in BOOLEAN, toks \in TokSeqs(ColorToks, 2)}
    \cup {[path |-> <<s_proj, s_manifest_xml>>, arg |-> NoneC,
           disk |-> File(TRUE, Text(wf, toks), FALSE)] :
             wf \in BOOLEAN,
             toks \in TokSeqs(ManifestToks, MaxToks)
                      \cup {<<Tok("open", <<"manifest">>), Tok("open", <<"application">>)>> \o perms :
                               perms \in TokSeqs(PermToks, MaxToks)}}
    \cup {[path |-> <<s_proj, s_res, s_values, s_strings_xml>>, arg |-> NoneC,
           disk |-> File(TRUE, text, FALSE)] : text \in StringsTexts}

InitRules ==
    /\ InitCommon
    /\ inst = [t \in Threads |-> t]

\* the main thread's one call
RulesCall ==
    /\ loc[Main].pc = "idle"
    /\ \E in \in RuleInputs : Call(Main, in)

NextRules ==
    \/ RulesCall
    \/ ClearErrors(Main)
    \/ ClearWarnings(Main)
    \/ ReadContent(Main)
    \/ CheckSyntax(Main)
    \/ Dispatch(Main)
    \/ RuleAppend(Main)
    \/ ReturnValid(Main)
    \/ ReturnErrors(Main)
    \/ ReturnWarnings(Main)

SpecRules == InitRules /\ [][NextRules]_vars

----------------------------------------------------------------------------
(* validate_project_resources.  A project is what the scan finds on disk:  *)
(* whether the root exists, whether it has a res/ directory, the *.xml     *)
(* files below res/ in the order rglob yields them, and the top-level      *)
(* AndroidManifest.xml if there is one.                                    *)

MaxFiles == 3

\* validation_results as created (lines 152-160)
EmptySummary ==
    [total_files |-> 0, valid_files |-> 0, invalid_files |-> 0,
     files_with_warnings |-> 0, errors |-> <<>>, warnings |-> <<>>,
     file_results |-> <<>>]

\* a string of the summary: f"{name}: {msg}", f"Error procesando {name}: ...",
\* f"Ruta de proyecto no existe: ..."
Line(pre, name, msg) == [pre |-> pre, name |-> name, msg |-> msg]

\* mutant of Prefixed: only the first message of the list is taken over
PrefixedFirstOnly(name, msgs) ==
    IF Len(msgs) = 0 THEN <<>> ELSE <<Line("", name, msgs[1])>>

\* [f"{name}: {msg}" for msg in msgs]
Prefixed(name, msgs) == [i \in 1..Len(msgs) |-> Line("", name, msgs[i])]

\* mutant of MissingRootSummary: the missing root is counted as an invalid file
MissingRootCounted(sum) ==
    [sum EXCEPT !.invalid_files = @ + 1,
                !.errors = Append(@, Line("Ruta de proyecto no existe", <<>>, <<>>))]

\* lines 162-164: the root does not exist
MissingRootSummary(sum) ==
    [sum EXCEPT !.errors = Append(@, Line("Ruta de proyecto no existe", <<>>, <<>>))]

\* file_results[str(path)] = result
Store(file_results, path, result) ==
    IF \E i \in 1..Len(file_results) : file_results[i].path = path
    THEN [i \in 1..Len(file_results) |->
            IF file_results[i].path = path THEN [path |-> path, result |-> result]
            ELSE file_results[i]]
    ELSE Append(file_results, [path |-> path, result |-> result])

\* mutant of FoldResult: the warnings are looked at for valid files only
FoldResultWarningsIfValid(sum, path, result) ==
    LET s1 == [sum EXCEPT !.file_results = Store(@, path, result)]
    IN  IF result.valid
        THEN IF result.warnings # <<>>
             THEN [s1 EXCEPT !.valid_files = @ + 1,
                             !.files_with_warnings = @ + 1,
                             !.warnings = @ \o Prefixed(PathName(path), result.warnings)]
             ELSE [s1 EXCEPT !.valid_files = @ + 1]
        ELSE [s1 EXCEPT !.invalid_files = @ + 1,
                        !.errors = @ \o Prefixed(PathName(path), result.errors)]

\* lines 175-189: fold the result of one file of res/ into the summary
FoldResult(sum, path, result) ==
    LET s1 == [sum EXCEPT !.file_results = Store(@, path, result)]
        s2 == IF result.valid THEN [s1 EXCEPT !.valid_files = @ + 1]
              ELSE [s1 EXCEPT !.invalid_files = @ + 1,
                              !.errors = @ \o Prefixed(PathName(path), result.errors)]
    IN  IF result.warnings # <<>>
        THEN [s2 EXCEPT !.files_with_warnings = @ + 1,
                        !.warnings = @ \o Prefixed(PathName(path), result.warnings)]
        ELSE s2

\* mutant of FoldException: the file that raised is not counted
FoldExceptionUncounted(sum, path) ==
    [sum EXCEPT !.errors = Append(@, Line("Error procesando", PathName(path), <<>>))]

\* lines 191-193: the validation of a file of res/ raised
FoldException(sum, path) ==
    [sum EXCEPT !.invalid_files = @ + 1,
                !.errors = Append(@, Line("Error procesando", PathName(path), <<>>))]

\* lines 199-214: fold the manifest's result into the summary
FoldManifest(sum, path, result) ==
    LET s1 == [sum EXCEPT !.file_results = Store(@, path, result),
                          !.total_files = @ + 1]
        s2 == IF result.valid THEN [s1 EXCEPT !.valid_files = @ + 1]
              ELSE [s1 EXCEPT !.invalid_files = @ + 1,
                              !.errors = @ \o Prefixed(s_manifest_xml, result.errors)]
    IN  IF result.warnings # <<>>
        THEN [s2 EXCEPT !.files_with_warnings = @ + 1,
                        !.warnings = @ \o Prefixed(s_manifest_xml, result.warnings)]
        ELSE s2

\* the *.xml paths under res/ the model's projects choose from
ScanPaths(root) ==
    IF root = s_proj
    THEN {<<root, s_res, s_layout, s_main_xml>>, <<root, s_res, s_values, s_colors_xml>>,
          <<root, s_res, s_values, s_strings_xml>>, <<root, s_res, s_xmldir, s_prefs_xml>>}
    ELSE ResPaths(root)

ScanDisks ==
    {File(TRUE, cLayoutOk, FALSE), File(TRUE, cLayoutBad, FALSE), File(TRUE, cColors, FALSE),
     File(FALSE, NoneC, FALSE), File(TRUE, cLayoutIds, TRUE)}

ManifestDisks ==
    {File(TRUE, cManifest, FALSE), File(TRUE, cManifestNoApp, FALSE),
     File(FALSE, NoneC, FALSE), File(TRUE, cManifest, TRUE)}

NoManifest == [exists |-> FALSE, disk |-> File(FALSE, NoneC, FALSE)]

\* what manifest.exists() and the file behind it can be
Manifests == {NoManifest} \cup {[exists |-> TRUE, disk |-> d] : d \in ManifestDisks}

\* the frame of a scan of the project at root.  n is len(xml_files); the
\* i-th file of the list is drawn when the loop reaches it (any path the
\* loop has not seen, with any file behind it), the manifest when the scan
\* looks for it.  log is history: one entry per file the scan has dealt with
ScanFrame(root, exists) ==
    [pc |-> "begin", root |-> root, exists |-> exists, n |-> 0, i |-> 1,
     sum |-> EmptySummary, manifest |-> NoManifest, log |-> <<>>]

LogEntry(path, disk, n, before, after) ==
    [path |-> path, disk |-> disk,
     raised |-> n.l.pc = "raised", result |-> n.l.result, shares |-> n.l.shares,
     errors |-> SubSeq(after.errors, Len(before.errors) + 1, Len(after.errors)),
     d_valid |-> after.valid_files - before.valid_files,
     d_invalid |-> after.invalid_files - before.invalid_files]

\* lines 151-170: the summary is created; a missing root returns at once;
\* with a res/ directory, total_files = len(xml_files)
ScanBegin ==
    /\ scan.pc = "begin"
    /\ \/ /\ ~scan.exists
          /\ scan' = [scan EXCEPT !.pc = "returned", !.sum = MissingRootSummary(scan.sum)]
       \/ /\ scan.exists
          /\ \E n \in 0..MaxFiles :
                /\ n <= Cardinality(ScanPaths(scan.root))
                /\ scan' = [scan EXCEPT !.pc = IF n = 0 THEN "manifest" ELSE "loop",
                                        !.n = n,
                                        !.sum = [scan.sum EXCEPT !.total_files = n]]
       \/ /\ scan.exists
          /\ scan' = [scan EXCEPT !.pc = "manifest"]
    /\ UNCHANGED <<fs, fm, hashseed, acc, used, inst, loc, ghost, report, fixes>>

\* lines 172-193: one iteration of the loop over xml_files
ScanFile ==
    /\ scan.pc = "loop"
    /\ \E path \in ScanPaths(scan.root), disk \in ScanDisks :
        /\ \A k \in 1..Len(scan.log) : scan.log[k].path # path
        /\ LET n == ValidateXmlFile(acc[AccSlot(inst[Main])], hashseed, path, NoneC, disk)
               sum == IF n.l.pc = "raised" THEN FoldException(scan.sum, path)
                      ELSE FoldResult(scan.sum, path, n.l.result)
           IN  /\ acc' = [acc EXCEPT ![AccSlot(inst[Main])] = n.a]
               /\ scan' = [scan EXCEPT
                             !.pc = IF scan.i = scan.n THEN "manifest" ELSE "loop",
                             !.i = @ + 1,
                             !.sum = sum,
                             !.log = Append(@, LogEntry(path, disk, n, scan.sum, sum))]
    /\ used' = [used EXCEPT ![inst[Main]] = TRUE]
    /\ UNCHANGED <<fs, fm, hashseed, inst, loc, ghost, report, fixes>>

\* lines 196-223: the top-level AndroidManifest.xml, and the return; an
\* exception of the manifest's validation leaves the function
ScanManifest ==
    /\ scan.pc = "manifest"
    /\ \E m \in Manifests :
        LET path == <<scan.root, s_manifest_xml>>
            n == ValidateXmlFile(acc[AccSlot(inst[Main])], hashseed, path, NoneC, m.disk)
        IN  IF ~m.exists
            THEN /\ scan' = [scan EXCEPT !.pc = "returned"]
                 /\ UNCHANGED <<acc, used>>
            ELSE /\ acc' = [acc EXCEPT ![AccSlot(inst[Main])] = n.a]
                 /\ used' = [used EXCEPT ![inst[Main]] = TRUE]
                 /\ scan' =
                     IF n.l.pc = "raised"
                     THEN [scan EXCEPT !.pc = "raised", !.manifest = m]
                     ELSE LET sum == FoldManifest(scan.sum, path, n.l.result)
                          IN  [scan EXCEPT
                                 !.pc = "returned",
                                 !.manifest = m,
                                 !.sum = sum,
                                 !.log = Append(@, LogEntry(path, m.disk, n, scan.sum, sum))]
    /\ UNCHANGED <<fs, fm, hashseed, inst, loc, ghost, report, fixes>>

\* accumulators an earlier use of the instance left behind
UsedAcc ==
    [errors |-> <<Msg(SyntaxError)>>,
     warnings |-> <<Msg(Emit("W", "Posibles permisos duplicados", <<>>))>>]

(* One scan of one project, by the main thread, on an instance that is new *)
(* or has been used before.                                                *)
InitProject ==
    /\ hashseed \in Seeds
    /\ inst = [t \in Threads |-> t]
    /\ acc \in {[i \in Instances |-> InitAcc],
                [i \in Instances |-> IF i = inst[Main] THEN UsedAcc ELSE InitAcc]}
    /\ used = [i \in Instances |-> i = inst[Main] /\ acc[i] # InitAcc]
    /\ loc = [t \in Threads |-> IdleFrame]
    /\ ghost = [t \in Threads |-> IdleGhost]
    /\ \E root \in Roots, exists \in BOOLEAN : scan = ScanFrame(root, exists)
    /\ report = IdleReport
    /\ fixes = IdleFixes
    /\ fs = NoDisk
    /\ fm = IdleManager


----------------------------------------------------------------------------
(* suggest_fixes.  Error strings are sequences of characters, so that      *)
(* error.lower() and the keyword tests are computed.                       *)

upper_case ==
    <<"A","B","C","D","E","F","G","H","I","J","K","L","M",
      "N","O","P","Q","R","S","T","U","V","W","X","Y","Z">>

lower_case ==
    <<"a","b","c","d","e","f","g","h","i","j","k","l","m",
      "n","o","p","q","r","s","t","u","v","w","x","y","z">>

\* str.lower()
Lower(s) ==
    [i \in 1..Len(s) |->
        IF \E k \in 1..Len(upper_case) : upper_case[k] = s[i]
        THEN lower_case[CHOOSE k \in 1..Len(upper_case) : upper_case[k] = s[i]]
        ELSE s[i]]

s_layout_width == <<"l","a","y","o","u","t","_","w","i","d","t","h">>
s_layout_height == <<"l","a","y","o","u","t","_","h","e","i","g","h","t">>
s_duplicate == <<"d","u","p","l","i","c","a","t","e">>
s_syntax == <<"s","y","n","t","a","x">>
s_color == <<"c","o","l","o","r">>
s_resource == <<"r","e","s","o","u","r","c","e">>

\* lines 274-285: the suggestion the if/elif chain appends for one error
SuggestionFor(error) ==
    LET lower == Lower(error)
    IN  IF IsSubstr(s_layout_width, lower) \/ IsSubstr(s_layout_height, lower)
        THEN "Especificar 'wrap_content', 'match_parent' o un valor dp especifico"
        ELSE IF IsSubstr(s_duplicate, lower)
        THEN "Renombrar o eliminar IDs duplicados en el layout"
        ELSE IF IsSubstr(s_syntax, lower)
        THEN "Verificar que todas las etiquetas XML esten correctamente cerradas"
        ELSE IF IsSubstr(s_color, lower)
        THEN "Usar formato hexadecimal valido: #RRGGBB o #AARRGGBB"
        ELSE IF IsSubstr(s_resource, lower)
        THEN "Verificar que el recurso referenciado existe en el proyecto"
        ELSE "Revisar la documentacion de Android para el elemento especifico"

\* lines 271-285: the list the loop builds
Suggestions(errors) == [i \in 1..Len(errors) |-> SuggestionFor(errors[i])]

\* the lists that hold every element of the set S once
Orders(S) ==
    {f \in [1..Cardinality(S) -> S] : \A i, j \in 1..Cardinality(S) : i # j => f[i] # f[j]}

\* mutant of ReturnValues: the list is returned as built
ReturnValuesAsBuilt(suggestions) == {suggestions}

\* line 287: list(set(suggestions)); the order of a set of strings is whatever
\* the process's string hashing makes it
ReturnValues(suggestions) ==
    Orders({suggestions[i] : i \in 1..Len(suggestions)})

MaxErrors == 3

\* error strings suggest_fixes is called with
e_dim_caps == <<"L","a","y","o","u","t","_","W","i","d","t","h"," ","v","a","c","i","o">>
e_dup_dim ==
    <<"d","u","p","l","i","c","a","t","e"," ","l","a","y","o","u","t","_","h","e","i",
      "g","h","t">>
e_dup_syntax == <<"D","u","p","l","i","c","a","t","e"," ","s","y","n","t","a","x">>
e_syntax_color == <<"S","Y","N","T","A","X"," ","c","o","l","o","r">>
e_color_resource == <<"C","o","l","o","r"," ","r","e","s","o","u","r","c","e">>
e_resource == <<"R","e","s","o","u","r","c","e"," ","x">>
\* line 147: f"ID duplicado: {dup_id}", the error of _validate_duplicate_ids
DupIdText(dup_id) == <<"I","D"," ","d","u","p","l","i","c","a","d","o",":"," ">> \o dup_id
e_id_duplicado == DupIdText(<<"a">>)
e_sintaxis ==
    <<"E","r","r","o","r"," ","d","e"," ","s","i","n","t","a","x","i","s"," ","X","M",
      "L",":"," ","m","i","s","m","a","t","c","h","e","d"," ","t","a","g">>
e_formato_color ==
    <<"F","o","r","m","a","t","o"," ","d","e"," ","c","o","l","o","r"," ","i","n","v",
      "a","l","i","d","o",":"," ","#","1","2">>
e_empty == <<>>

ErrorTexts ==
    {e_dim_caps, e_dup_dim, e_dup_syntax, e_syntax_color, e_color_resource, e_resource,
     e_id_duplicado, e_sintaxis, e_formato_color, e_empty}

ErrorLists == UNION {[1..n -> ErrorTexts] : n \in 0..MaxErrors}

\* suggest_fixes(errors)
SuggestFixes ==
    /\ report.pc = "idle"
    /\ fixes.pc = "idle"
    /\ \E errors \in ErrorLists :
        \E result \in ReturnValues(Suggestions(errors)) :
            fixes' = [pc |-> "done", errors |-> errors, result |-> result]
    /\ UNCHANGED <<fs, fm, hashseed, acc, used, inst, loc, ghost, scan, report>>

----------------------------------------------------------------------------
(* show_validation_report.  What it prints is a sequence of items: the     *)
(* summary table, a panel per non-empty list, the notes, the statement.    *)

ShownLines == 10

MaxLines == 12

\* something printed: a table, a panel, a show_info note, the final statement
Item(kind, title, count, lines) ==
    [kind |-> kind, title |-> title, count |-> count, lines |-> lines]

\* list[:10]
FirstLines(list) ==
    SubSeq(list, 1, IF Len(list) < ShownLines THEN Len(list) ELSE ShownLines)

\* lines 228-237: the summary table
SummaryTable(results) ==
    Item("table", "Resumen de Validacion", 0,
         <<results.total_files, results.valid_files, results.invalid_files,
           results.files_with_warnings>>)

\* mutant of TruncationNote: the note is printed from 10 entries on
TruncationNoteAtLimit(list, what) ==
    IF Len(list) >= ShownLines THEN <<Item("info", what, Len(list), <<>>)>> ELSE <<>>

\* lines 248-249 and 260-261: show_info(f"Se mostraron 10 de {len(list)} ...")
TruncationNote(list, what) ==
    IF Len(list) > ShownLines THEN <<Item("info", what, Len(list), <<>>)>> ELSE <<>>

\* lines 240-249 and 252-261: the panel of a list and its note
ListPanel(list, title, what) ==
    IF list # <<>>
    THEN <<Item("panel", title, Len(list), FirstLines(list))>> \o TruncationNote(list, what)
    ELSE <<>>

\* mutant of Statement: the statement follows the errors list
StatementByErrors(results) ==
    IF results.errors = <<>>
    THEN Item("success", "Todos los archivos XML son validos", 0, <<>>)
    ELSE Item("error", "archivos con errores", results.invalid_files, <<>>)

\* lines 264-267: the overall statement
Statement(results) ==
    IF results.invalid_files = 0
    THEN Item("success", "Todos los archivos XML son validos", 0, <<>>)
    ELSE Item("error", "archivos con errores", results.invalid_files, <<>>)

\* show_validation_report(results): everything it prints, in order
ReportOutput(results) ==
    <<SummaryTable(results)>>
    \o ListPanel(results.errors, "Errores", "errores")
    \o ListPanel(results.warnings, "Advertencias", "advertencias")
    \o <<Statement(results)>>

\* a list of n distinct strings of a summary
Lines(kind, n) == [i \in 1..n |-> Line("", s_main_xml, [m |-> kind, a |-> <<i>>])]

\* the summaries show_validation_report is called with
ReportInputs ==
    {[EmptySummary EXCEPT !.total_files = v + k, !.valid_files = v, !.invalid_files = k,
                          !.files_with_warnings = IF m = 0 THEN 0 ELSE 1,
                          !.errors = Lines("E", n), !.warnings = Lines("W", m)] :
        v \in 0..1, k \in 0..2, n \in 0..MaxLines, m \in 0..MaxLines}

ShowValidationReport ==
    /\ report.pc = "idle"
    /\ fixes.pc = "idle"
    /\ \E results \in ReportInputs :
        report' = [pc |-> "done", results |-> results, out |-> ReportOutput(results)]
    /\ UNCHANGED <<fs, fm, hashseed, acc, used, inst, loc, ghost, scan, fixes>>

(* A scan and the report of its summary, as the menu runs them (main.py    *)
(* lines 209-211).                                                         *)
\* main.py line 211: the summary the scan returned is shown
ReportScan ==
    /\ scan.pc = "returned"
    /\ report.pc = "idle"
    /\ report' = [pc |-> "done", results |-> scan.sum, out |-> ReportOutput(scan.sum)]
    /\ UNCHANGED <<fs, fm, hashseed, acc, used, inst, loc, ghost, scan, fixes>>

NextProject == ScanBegin \/ ScanFile \/ ScanManifest \/ ReportScan

SpecProject == InitProject /\ [][NextProject]_vars

(* The reporter, one call of it: a summary is shown, or a list of errors   *)
(* is turned into suggestions.                                             *)
InitReport ==
    /\ InitCommon
    /\ inst = [t \in Threads |-> t]

NextReport == ShowValidationReport \/ SuggestFixes

SpecReport == InitReport /\ [][NextReport]_vars

----------------------------------------------------------------------------
(* The file manager (file_manager.py): write_file, create_backup,          *)
(* restore_backup and the history file.  The disk fs holds one file of the *)
(* project (its text, "missing", or "truncated" after a write that failed  *)
(* half way), the texts copied to backups/, and file_history.json: missing, *)
(* a list of entries, or corrupt (not JSON).  What the disk and the user    *)
(* answer is drawn at each step.                                            *)

HistoryLimit == 500

\* the calls of one run
MaxOps == 2

\* the texts write_file is called with
FileTexts == {"v1", "v2"}

\* a history entry: n numbers the call that added it (n <= 0: an earlier run)
Entry(n, action) == [n |-> n, action |-> action]

\* the history of earlier runs, n entries long
OldEntries(n) == [i \in 1..n |-> Entry(i - n, "write")]

HistoryFile(state, entries) == [state |-> state, entries |-> entries]

\* the disks a run starts with
StartDisks ==
    {[file |-> file, backups |-> backups, history |-> history] :
        file \in {"missing", "v0"},
        backups \in {{}, {"v9"}},
        history \in {HistoryFile("missing", <<>>)}
                    \cup {HistoryFile("list", OldEntries(n)) :
                            n \in {0, HistoryLimit - 1, HistoryLimit}}}

\* lines 256-267: get_file_history; read is whether open and json.load succeed
GetFileHistory(history, read) ==
    IF history.state = "missing" THEN <<>>
    ELSE IF history.state = "list" /\ read THEN history.entries
    ELSE <<>>

\* the ways the history file answers one _add_to_history
HistoryIO == {"ok", "read_fails", "open_fails", "dump_fails"}

\* lines 269-291: _add_to_history; an exception is shown and swallowed
AddToHistory(history, entry, io) ==
    LET h0 == GetFileHistory(history, io # "read_fails")
        h1 == Append(h0, entry)
        h2 == IF Len(h1) > HistoryLimit
              THEN SubSeq(h1, Len(h1) - HistoryLimit + 1, Len(h1)) ELSE h1
    IN  IF io = "open_fails" THEN history
        ELSE IF io = "dump_fails" THEN HistoryFile("corrupt", <<>>)
        ELSE HistoryFile("list", h2)

\* lines 187-206: create_backup of the file; copy is whether shutil.copy2
\* succeeds.  The disk after it, and what it returns
CreateBackup(d, copy) ==
    IF d.file = "missing" \/ ~copy THEN [d |-> d, ret |-> FALSE]
    ELSE [d |-> [d EXCEPT !.backups = @ \cup {d.file}], ret |-> TRUE]

\* the frame of a call: op and its arguments, then history of the call (old:
\* the file when the call began; backed, asked, confirmed: what lines 164-167
\* did; wrote: the file was opened for writing), and history of the run (ops:
\* the entries of the calls that returned True; base: the history file's
\* entries when the run began; failed: a call returned False; calls)
ManagerFrame(base) ==
    [pc |-> "idle", op |-> "none", content |-> "none", create_backup |-> FALSE,
     backup |-> "none", old |-> "missing", history0 |-> HistoryFile("missing", <<>>),
     backed |-> FALSE, asked |-> FALSE, confirmed |-> FALSE, wrote |-> FALSE,
     ret |-> "none", ops |-> <<>>, base |-> base, failed |-> FALSE, calls |-> 0,
     iofault |-> FALSE]

\* a call begins
Begin(f, d, op, content, create_backup, backup, pc) ==
    [f EXCEPT !.pc = pc, !.op = op, !.content = content, !.create_backup = create_backup,
              !.backup = backup, !.old = d.file, !.history0 = d.history,
              !.backed = FALSE, !.asked = FALSE, !.confirmed = FALSE, !.wrote = FALSE,
              !.ret = "none", !.calls = @ + 1]

\* the call returns False
ReturnFalse(f) == [f EXCEPT !.pc = "idle", !.ret = FALSE, !.failed = TRUE]

\* the call returns True, its history entry written or not
ReturnTrue(f, io) ==
    [f EXCEPT !.pc = "idle", !.ret = TRUE,
              !.ops = Append(@, Entry(f.calls, f.op)),
              !.iofault = @ \/ io # "ok"]

\* mutant of StepBackup: the write goes on whatever the user answers
StepBackupAnswerIgnored(f, d, copy, answer) ==
    IF f.create_backup /\ d.file # "missing"
    THEN LET b == CreateBackup(d, copy)
         IN  IF b.ret THEN [f |-> [f EXCEPT !.pc = "write", !.backed = TRUE], d |-> b.d]
             ELSE [f |-> [f EXCEPT !.pc = "write", !.asked = TRUE, !.confirmed = answer],
                   d |-> b.d]
    ELSE [f |-> [f EXCEPT !.pc = "write"], d |-> d]

\* lines 164-167: the backup of an existing file, and the question when it fails
StepBackup(f, d, copy, answer) ==
    IF f.create_backup /\ d.file # "missing"
    THEN LET b == CreateBackup(d, copy)
         IN  IF b.ret THEN [f |-> [f EXCEPT !.pc = "write", !.backed = TRUE], d |-> b.d]
             ELSE IF answer
             THEN [f |-> [f EXCEPT !.pc = "write", !.asked = TRUE, !.confirmed = TRUE],
                   d |-> b.d]
             ELSE [f |-> [ReturnFalse(f) EXCEPT !.asked = TRUE], d |-> b.d]
    ELSE [f |-> [f EXCEPT !.pc = "write"], d |-> d]

\* the ways the file answers open(full_path, 'w') and f.write(content)
WriteIO == {"ok", "open_fails", "write_fails"}

\* lines 170-173 and 182-185: the file is opened for writing, which empties
\* it, and written; an exception returns False
StepWrite(f, d, io) ==
    IF io = "open_fails" THEN [f |-> ReturnFalse(f), d |-> d]
    ELSE IF io = "write_fails"
    THEN [f |-> [ReturnFalse(f) EXCEPT !.wrote = TRUE], d |-> [d EXCEPT !.file = "truncated"]]
    ELSE [f |-> [f EXCEPT !.pc = "history", !.wrote = TRUE],
          d |-> [d EXCEPT !.file = f.content]]

\* lines 179-180 and 226-227: the history entry, and return True
StepHistory(f, d, io) ==
    [f |-> ReturnTrue(f, io),
     d |-> [d EXCEPT !.history = AddToHistory(@, Entry(f.calls, f.op), io)]]

\* lines 219-220: the file restore_backup is about to replace is backed up;
\* what create_backup returns is not looked at
StepBackupTarget(f, d, copy) ==
    [f |-> [f EXCEPT !.pc = "copy"],
     d |-> IF d.file # "missing" THEN CreateBackup(d, copy).d ELSE d]

\* line 222 and lines 229-231: shutil.copy2(backup_path, target)
StepCopy(f, d, copy) ==
    IF copy THEN [f |-> [f EXCEPT !.pc = "history", !.wrote = TRUE],
                  d |-> [d EXCEPT !.file = f.backup]]
    ELSE [f |-> ReturnFalse(f), d |-> d]

\* the step's outcome n becomes the state
Becomes(n) ==
    /\ fm' = n.f
    /\ fs' = n.d
    /\ UNCHANGED <<hashseed, acc, used, inst, loc, ghost, scan, report, fixes>>

\* write_file(file_path, content, create_backup) is called
WriteFile ==
    /\ fm.pc = "idle"
    /\ fm.calls < MaxOps
    /\ \E content \in FileTexts, create_backup \in BOOLEAN :
          Becomes([f |-> Begin(fm, fs, "write", content, create_backup, "none", "backup"),
                   d |-> fs])

WriteFileBackup ==
    /\ fm.pc = "backup"
    /\ \E copy \in BOOLEAN, answer \in BOOLEAN : Becomes(StepBackup(fm, fs, copy, answer))

WriteFileWrite ==
    /\ fm.pc = "write"
    /\ \E io \in WriteIO : Becomes(StepWrite(fm, fs, io))

\* the history entry of write_file and of restore_backup
AddHistory ==
    /\ fm.pc = "history"
    /\ \E io \in HistoryIO : Becomes(StepHistory(fm, fs, io))

\* lines 208-216: restore_backup(backup_file, target_path) is called; a
\* backup that is not there returns False
RestoreBackup ==
    /\ fm.pc = "idle"
    /\ fm.calls < MaxOps
    /\ \E backup \in {"v0", "v9"} :
          LET f == Begin(fm, fs, "restore", "none", FALSE, backup, "target")
          IN  Becomes([f |-> IF backup \in fs.backups THEN f ELSE ReturnFalse(f), d |-> fs])

RestoreBackupTarget ==
    /\ fm.pc = "target"
    /\ \E copy \in BOOLEAN : Becomes(StepBackupTarget(fm, fs, copy))

RestoreBackupCopy ==
    /\ fm.pc = "copy"
    /\ \E copy \in BOOLEAN : Becomes(StepCopy(fm, fs, copy))

(* A run of the file manager: up to MaxOps calls, one after the other.     *)
InitFiles ==
    /\ hashseed \in Seeds
    /\ acc = [i \in Instances |-> InitAcc]
    /\ used = [i \in Instances |-> FALSE]
    /\ inst = [t \in Threads |-> t]
    /\ loc = [t \in Threads |-> IdleFrame]
    /\ ghost = [t \in Threads |-> IdleGhost]
    /\ scan = IdleScan
    /\ report = IdleReport
    /\ fixes = IdleFixes
    /\ fs \in StartDisks
    /\ fm = ManagerFrame(fs.history.entries)

NextFiles ==
    \/ WriteFile
    \/ WriteFileBackup
    \/ WriteFileWrite
    \/ AddHistory
    \/ RestoreBackup
    \/ RestoreBackupTarget
    \/ RestoreBackupCopy

SpecFiles == InitFiles /\ [][NextFiles]_vars

----------------------------------------------------------------------------
(* Properties of validate_xml_file.                                        *)

\* the result the call of frame l returns when it runs alone on a new instance
Solo(l) == ValidateXmlFile(InitAcc, hashseed, l.path, l.arg, l.disk).l.result

Returned(t) == loc[t].pc = "done"

\* the call got a text to check (it did not end in the read-failure return)
HasContent(t) == ~loc[t].content.none

IsError(e) == e.k = "E"

IsWarning(e) == e.k = "W"

\* the strings a sequence of appends leaves in self.errors / self.warnings
ErrorsOf(emits) ==
    LET es == SelectSeq(emits, IsError) IN [i \in 1..Len(es) |-> Msg(es[i])]

WarningsOf(emits) ==
    LET ws == SelectSeq(emits, IsWarning) IN [i \in 1..Len(ws) |-> Msg(ws[i])]

\* C1: a returned result has valid = (the text parsed as XML and errors is
\* empty); the warnings play no part
C1_ValidIffWellFormedAndNoErrors ==
    Returned(Main) =>
        (loc[Main].result.valid
            <=> (HasContent(Main) /\ loc[Main].content.wf
                 /\ loc[Main].result.errors = <<>>))

\* C1 witness: a returned result that is valid although it holds warnings
C1_Witness ==
    /\ Returned(Main)
    /\ loc[Main].result.valid
    /\ loc[Main].result.warnings # <<>>

\* C6: every call made one after another on one instance returns what a new
\* instance returns for the same path and content
C6_SequentialReuseEqualsFresh ==
    Returned(Main) => loc[Main].result = Solo(loc[Main])

\* C6 witness: a call that started on accumulators an earlier call had filled,
\* and returned a valid result without errors or warnings
C6_Witness ==
    /\ Returned(Main)
    /\ ghost[Main].dirty
    /\ ~ghost[Main].fresh
    /\ loc[Main].result = [valid |-> TRUE, errors |-> <<>>, warnings |-> <<>>]

\* C8: for a text that fails to parse the chosen rule set still runs: errors
\* is the syntax error followed by all the rule set's errors, warnings is all
\* its warnings, and valid is false
C8_SyntaxFailureDoesNotShortCircuit ==
    (Returned(Main) /\ HasContent(Main) /\ ~loc[Main].content.wf) =>
        LET emits == RuleEmissions(hashseed, loc[Main].path, loc[Main].content.toks)
        IN  /\ loc[Main].result.errors = <<Msg(SyntaxError)>> \o ErrorsOf(emits)
            /\ loc[Main].result.warnings = WarningsOf(emits)
            /\ ~loc[Main].result.valid

\* C8 witness: a text that fails to parse and whose rule set added an error
\* and a warning of its own
C8_Witness ==
    /\ Returned(Main)
    /\ HasContent(Main)
    /\ ~loc[Main].content.wf
    /\ Len(loc[Main].result.errors) >= 2
    /\ loc[Main].result.errors[1] = Msg(SyntaxError)
    /\ loc[Main].result.warnings # <<>>

\* the rule set the immediate parent directory's name and the filename select
RuleSetByParentName(path) ==
    IF IsSubstr(s_layout, ParentName(path)) THEN "layout"
    ELSE IF IsSubstr(s_values, ParentName(path)) THEN "values"
    ELSE IF PathName(path) = s_manifest_xml THEN "manifest"
    ELSE "none"

\* C9: the rule set applied to a file is the one its immediate parent
\* directory's name and its filename select, whatever its ancestors are called
C9_RuleSetDependsOnParentNameOnly ==
    (Returned(Main) /\ HasContent(Main)) =>
        loc[Main].ruleset = RuleSetByParentName(loc[Main].path)

\* a path that matches no resource type
NoResourceType(path) ==
    /\ ~IsSubstr(s_layout, ParentStr(path))
    /\ ~IsSubstr(s_values, ParentStr(path))
    /\ PathName(path) # s_manifest_xml

\* a file in a values directory that is none of strings, colors, styles
OtherValuesFile(path) ==
    /\ IsSubstr(s_values, ParentName(path))
    /\ PathName(path) \notin {s_strings_xml, s_colors_xml, s_styles_xml}

\* C10: a file of no resource type, and a file under values that is none of
\* strings.xml, colors.xml, styles.xml, gets the syntax check only: no
\* warnings, at most the syntax error, valid exactly when the text parses
C10_UnknownFilesGetSyntaxCheckOnly ==
    (/\ Returned(Main)
     /\ HasContent(Main)
     /\ NoResourceType(loc[Main].path) \/ OtherValuesFile(loc[Main].path)) =>
        /\ loc[Main].result.warnings = <<>>
        /\ loc[Main].result.errors \in {<<>>, <<Msg(SyntaxError)>>}
        /\ loc[Main].result.valid = loc[Main].content.wf

\* C5: a call returns something else than it returns alone only when another
\* thread's call ran on the same instance while it was running
C5_DivergenceOnlyUnderSharedInterleaving ==
    \A t \in Threads :
        (Returned(t) /\ loc[t].result # Solo(loc[t])) =>
            /\ ghost[t].interfered
            /\ \E u \in Threads \ {t} : inst[u] = inst[t]

\* C5 witness: on the shared instance a call returned an error of the other
\* thread's file, so its result is not the one it returns alone
C5_Witness ==
    \E t \in Threads :
        /\ Returned(t)
        /\ \A u \in Threads : inst[u] = inst[t]
        /\ \E i \in 1..Len(loc[t].result.errors) :
              \A j \in 1..Len(Solo(loc[t]).errors) :
                  loc[t].result.errors[i] # Solo(loc[t]).errors[j]

----------------------------------------------------------------------------
(* Properties of validate_project_resources.                               *)

ScanReturned == scan.pc = "returned"

\* a file that cannot be read, or whose validation raises
Failing(disk) == ~disk.readable \/ disk.fault

\* C2: when the scan returns, total_files = valid_files + invalid_files
C2_TotalIsValidPlusInvalid ==
    ScanReturned =>
        scan.sum.total_files = scan.sum.valid_files + scan.sum.invalid_files

\* C2 witness: a returned scan of a tree with an unreadable file, a file whose
\* validation raised, and a manifest
C2_Witness ==
    /\ ScanReturned
    /\ scan.manifest.exists
    /\ \E k \in 1..Len(scan.log) : ~scan.log[k].disk.readable
    /\ \E k \in 1..Len(scan.log) : scan.log[k].disk.fault
    /\ scan.sum.total_files >= 3

\* C3: a file that cannot be read or whose validation raises is counted once,
\* as invalid, and adds one error that names it; the scan does not abort, and
\* when it returns every discovered file has been dealt with
C3_FailingFileCountedScanContinues ==
    /\ scan.pc # "raised"
    /\ \A k \in 1..Len(scan.log) :
          Failing(scan.log[k].disk) =>
              /\ scan.log[k].d_invalid = 1
              /\ scan.log[k].d_valid = 0
              /\ Len(scan.log[k].errors) = 1
              /\ scan.log[k].errors[1].name = PathName(scan.log[k].path)
    /\ (ScanReturned /\ scan.exists) =>
          Len(scan.log) = scan.n + (IF scan.manifest.exists THEN 1 ELSE 0)

\* C4: for a root that does not exist the scan validates no file and returns
\* the empty summary with exactly one error, the top-level one
C4_MissingRootSummary ==
    (ScanReturned /\ ~scan.exists) =>
        /\ scan.log = <<>>
        /\ scan.sum = [EmptySummary EXCEPT
                         !.errors = <<Line("Ruta de proyecto no existe", <<>>, <<>>)>>]

\* C4 witness: the scan of a missing root has returned, on an instance whose
\* accumulators an earlier validation had filled
C4_Witness ==
    /\ ScanReturned
    /\ ~scan.exists
    /\ Len(scan.sum.errors) = 1
    /\ acc[AccSlot(inst[Main])] = UsedAcc

----------------------------------------------------------------------------
(* Properties of the rule sets.                                            *)

\* the strings of a list whose fixed text is m, in list order
WithText(msgs, m) == LET Is(e) == e.m = m IN SelectSeq(msgs, Is)

\* a value that is '#' followed by 3, 4, 6 or 8 hexadecimal digits
HashAnd3468Hex(v) ==
    /\ Len(v) >= 1
    /\ v[1] = "#"
    /\ (Len(v) - 1) \in {3, 4, 6, 8}
    /\ \A i \in 2..Len(v) : v[i] \in HexDigits

\* C11: in colors.xml the errors about colours are, in text order, one per
\* <color> value that after trimming is not '#' followed by 3, 4, 6 or 8
\* hexadecimal digits, each holding the value; every other value adds none
C11_ColorAcceptedIffHash3468Hex ==
    (/\ Returned(Main)
     /\ HasContent(Main)
     /\ loc[Main].ruleset = "values"
     /\ PathName(loc[Main].path) = s_colors_xml) =>
        LET colors == FindAll(loc[Main].content.toks, {"color"})
            Rejected(c) == ~HashAnd3468Hex(Strip(c.p[1]))
            bad == SelectSeq(colors, Rejected)
            errs == WithText(loc[Main].result.errors, "Formato de color invalido")
        IN  /\ Len(errs) = Len(bad)
            /\ \A i \in 1..Len(bad) : errs[i].a = bad[i].p[1]

\* the number of android:id attributes of the text that name x
IdOccurrences(toks, x) ==
    Cardinality({i \in 1..Len(toks) : toks[i].t = "id" /\ toks[i].p[2] = x})

\* C12: a layout's duplicate-ID errors are exactly one for every ID name that
\* more than one android:id attribute names, however many do, and none for a
\* name that one attribute names; their number is the number of such names
C12_OneErrorPerDistinctRepeatedId ==
    (Returned(Main) /\ HasContent(Main) /\ loc[Main].ruleset = "layout") =>
        LET toks == loc[Main].content.toks
            dups == WithText(loc[Main].result.errors, "ID duplicado")
            repeated == {x \in IdUniverse : IdOccurrences(toks, x) > 1}
        IN  /\ Len(dups) = Cardinality(repeated)
            /\ \A x \in IdUniverse :
                  Cardinality({i \in 1..Len(dups) : dups[i].a = <<x>>})
                      = IF x \in repeated THEN 1 ELSE 0

\* C12 witness: a layout in which one name is given twice and another once
\* has returned with one duplicate-ID error
C12_Witness ==
    /\ Returned(Main)
    /\ loc[Main].ruleset = "layout"
    /\ \E x, y \in IdUniverse :
          /\ IdOccurrences(loc[Main].content.toks, x) = 2
          /\ IdOccurrences(loc[Main].content.toks, y) = 1
    /\ Len(WithText(loc[Main].result.errors, "ID duplicado")) = 1

\* the text holds layout_width="" or layout_height="", under any prefix
HasEmptyDimension(toks) ==
    \E i \in 1..Len(toks) :
        /\ toks[i].t = "dim"
        /\ toks[i].p[2] \in {"layout_width", "layout_height"}
        /\ toks[i].p[3] = ""

\* C13: a layout whose text holds layout_width="" or layout_height="", under
\* any namespace prefix, gets the empty-dimension error and is not valid; a
\* layout whose widths and heights all have values gets no such error
C13_EmptyDimensionUnderAnyPrefix ==
    (Returned(Main) /\ HasContent(Main) /\ loc[Main].ruleset = "layout") =>
        LET errs == WithText(loc[Main].result.errors,
                             "Atributos layout_width o layout_height vacios")
        IN  IF HasEmptyDimension(loc[Main].content.toks)
            THEN Len(errs) >= 1 /\ ~loc[Main].result.valid
            ELSE Len(errs) = 0

\* the text holds <tag
HasOpen(toks, tag) ==
    \E i \in 1..Len(toks) : toks[i].t = "open" /\ toks[i].p[1] = tag

\* C14: the manifest rule set adds one missing-element error for each of
\* <manifest and <application the text does not hold, naming it, and none for
\* one it holds; there are no other missing-element errors
C14_OneErrorPerMissingElement ==
    (Returned(Main) /\ HasContent(Main) /\ loc[Main].ruleset = "manifest") =>
        LET errs == WithText(loc[Main].result.errors, "Elemento requerido faltante")
            missing == {e \in {"manifest", "application"} :
                            ~HasOpen(loc[Main].content.toks, e)}
        IN  /\ Len(errs) = Cardinality(missing)
            /\ \A e \in {"manifest", "application"} :
                  Cardinality({i \in 1..Len(errs) : errs[i].a = <<e>>})
                      = IF e \in missing THEN 1 ELSE 0

\* C14 witness: a manifest with <manifest and without <application has
\* returned with one missing-element error, which names application
C14_Witness ==
    /\ Returned(Main)
    /\ loc[Main].ruleset = "manifest"
    /\ HasOpen(loc[Main].content.toks, "manifest")
    /\ ~HasOpen(loc[Main].content.toks, "application")
    /\ WithText(loc[Main].result.errors, "Elemento requerido faltante")
          = <<Msg(Emit("E", "Elemento requerido faltante", <<"application">>))>>

\* the resource kinds the reference check knows
KnownKinds == {"string", "color", "dimen", "style", "drawable", "layout", "id", "android"}

\* the type of the @type/name a piece of text holds ("+id" for @+id/name)
TypeOf(tok) == IF tok.t = "ref" THEN tok.p[1] ELSE IF tok.p[1] = "+" THEN "+id" ELSE "id"

\* C15: a layout's reference warnings are, in text order, one for every
\* occurrence of an @type/name whose type is not a known kind, naming it, and
\* none for a known kind: as many warnings as such occurrences
C15_OneWarningPerUnknownReference ==
    (Returned(Main) /\ HasContent(Main) /\ loc[Main].ruleset = "layout") =>
        LET IsRef(tok) == tok.t \in {"ref", "id"}
            Unknown(tok) == TypeOf(tok) \notin KnownKinds
            unknown == SelectSeq(SelectSeq(loc[Main].content.toks, IsRef), Unknown)
            warns == WithText(loc[Main].result.warnings,
                              "Tipo de recurso posiblemente invalido")
        IN  /\ Len(warns) = Len(unknown)
            /\ \A i \in 1..Len(unknown) :
                  warns[i].a = <<"@", TypeOf(unknown[i]), "/", unknown[i].p[2]>>

\* C15 witness: a layout that holds the same reference of an unknown type
\* twice and a reference of a known type has returned with two warnings
C15_Witness ==
    /\ Returned(Main)
    /\ loc[Main].ruleset = "layout"
    /\ LET toks == loc[Main].content.toks
       IN  /\ \E i, j \in 1..Len(toks) :
                 i < j /\ toks[i] = toks[j] /\ toks[i].t = "ref"
                 /\ toks[i].p[1] \notin KnownKinds
           /\ \E i \in 1..Len(toks) : toks[i].t = "ref" /\ toks[i].p[1] \in KnownKinds
    /\ Len(WithText(loc[Main].result.warnings, "Tipo de recurso posiblemente invalido")) = 2

\* the appends of the rule set rs alone
OnlyRules(rs, seed, path, toks) ==
    CASE rs = "layout" -> ValidateLayoutFile(seed, toks)
      [] rs = "values" -> ValidateValuesFile(toks, PathName(path))
      [] rs = "manifest" -> ValidateManifestFile(toks)
      [] OTHER -> <<>>

\* C20: a file gets the layout rules exactly when its parent path contains
\* "layout", the values rules exactly when it contains "values" and not
\* "layout", the manifest rules exactly when it contains neither and the file
\* is named AndroidManifest.xml; the result holds that one rule set's appends
\* and no other's
C20_OneRuleSetLayoutValuesManifest ==
    (Returned(Main) /\ HasContent(Main)) =>
        LET path == loc[Main].path
            inLayout == IsSubstr(s_layout, ParentStr(path))
            inValues == IsSubstr(s_values, ParentStr(path))
            emits == OnlyRules(loc[Main].ruleset, hashseed, path, loc[Main].content.toks)
            syntax == IF loc[Main].content.wf THEN <<>> ELSE <<Msg(SyntaxError)>>
        IN  /\ loc[Main].ruleset = "layout" <=> inLayout
            /\ loc[Main].ruleset = "values" <=> (~inLayout /\ inValues)
            /\ loc[Main].ruleset = "manifest" <=>
                  (~inLayout /\ ~inValues /\ PathName(path) = s_manifest_xml)
            /\ loc[Main].result.errors = syntax \o ErrorsOf(emits)
            /\ loc[Main].result.warnings = WarningsOf(emits)

\* C20 witness: a colors.xml with a bad colour whose parent path contains both
\* "layout" and "values" has returned with the layout warning and no error
C20_Witness ==
    /\ Returned(Main)
    /\ HasContent(Main)
    /\ IsSubstr(s_layout, ParentStr(loc[Main].path))
    /\ IsSubstr(s_values, ParentStr(loc[Main].path))
    /\ PathName(loc[Main].path) = s_colors_xml
    /\ ValidateColorsFile(loc[Main].content.toks) # <<>>
    /\ loc[Main].result.errors = <<>>
    /\ loc[Main].result.warnings # <<>>

----------------------------------------------------------------------------
(* Properties of the summary.                                              *)

\* the entries of file_results stored under path
ResultsAt(path) ==
    {i \in 1..Len(scan.sum.file_results) : scan.sum.file_results[i].path = path}

\* C16: when the scan of an existing root returns, valid_files counts the
\* scanned files whose result is valid, invalid_files all the other scanned
\* files, files_with_warnings the files whose result has warnings, valid or
\* not, and file_results holds each file's result under its path
C16_CountsMatchFileResults ==
    (ScanReturned /\ scan.exists) =>
        LET log == scan.log
            Ok(k) == ~log[k].raised
            valid == {k \in 1..Len(log) : Ok(k) /\ log[k].result.valid}
            warned == {k \in 1..Len(log) : Ok(k) /\ log[k].result.warnings # <<>>}
        IN  /\ scan.sum.valid_files = Cardinality(valid)
            /\ scan.sum.invalid_files = Len(log) - Cardinality(valid)
            /\ scan.sum.files_with_warnings = Cardinality(warned)
            /\ \A k \in 1..Len(log) :
                  Ok(k) =>
                      /\ Cardinality(ResultsAt(log[k].path)) = 1
                      /\ \A i \in ResultsAt(log[k].path) :
                            scan.sum.file_results[i].result = log[k].result
            /\ Len(scan.sum.file_results) = Cardinality({k \in 1..Len(log) : Ok(k)})

\* C16 witness: a returned scan with a valid file, an invalid file whose
\* result has warnings, and a manifest
C16_Witness ==
    /\ ScanReturned
    /\ scan.manifest.exists
    /\ \E k \in 1..Len(scan.log) : ~scan.log[k].raised /\ scan.log[k].result.valid
    /\ \E k \in 1..Len(scan.log) :
          /\ ~scan.log[k].raised
          /\ ~scan.log[k].result.valid
          /\ scan.log[k].result.warnings # <<>>
    /\ scan.sum.files_with_warnings >= 1

RECURSIVE Flatten(_)
\* the concatenation of a sequence of lists
Flatten(lists) ==
    IF Len(lists) = 0 THEN <<>> ELSE Head(lists) \o Flatten(Tail(lists))

\* f"{name}: {msg}" for every msg of msgs
NamePrefixed(name, msgs) == [i \in 1..Len(msgs) |-> [pre |-> "", name |-> name, msg |-> msgs[i]]]

\* C17 as stated: when the scan of an existing root returns, errors is the
\* concatenation, in scan order, of the errors of every scanned file's result,
\* each prefixed with the file's name, and warnings likewise; nothing else is
\* in the lists, so their lengths are the sums of the results' lengths
C17_ListsAreConcatenatedFileResults ==
    (ScanReturned /\ scan.exists) =>
        LET log == scan.log
        IN  /\ scan.sum.errors =
                  Flatten([k \in 1..Len(log) |->
                              NamePrefixed(PathName(log[k].path), log[k].result.errors)])
            /\ scan.sum.warnings =
                  Flatten([k \in 1..Len(log) |->
                              NamePrefixed(PathName(log[k].path), log[k].result.warnings)])

\* C17 amended: when the scan of an existing root returns, errors is the
\* concatenation, in scan order, of what each scanned file adds: the errors of
\* its result, each prefixed with the file's name, or, for a file whose
\* validation raised, the one entry "Error procesando <name>"; warnings is the
\* concatenation of the results' warnings, each prefixed with the file's name
C17_ListsAreConcatenatedContributions ==
    (ScanReturned /\ scan.exists) =>
        LET log == scan.log
            processing(k) ==
                <<[pre |-> "Error procesando", name |-> PathName(log[k].path), msg |-> <<>>]>>
            errs == Flatten([k \in 1..Len(log) |->
                        IF log[k].raised THEN processing(k)
                        ELSE NamePrefixed(PathName(log[k].path), log[k].result.errors)])
            warns == Flatten([k \in 1..Len(log) |->
                        IF log[k].raised THEN <<>>
                        ELSE NamePrefixed(PathName(log[k].path), log[k].result.warnings)])
        IN  /\ scan.sum.errors = errs
            /\ scan.sum.warnings = warns
            /\ Len(scan.sum.errors) =
                  Cardinality({k \in 1..Len(log) : log[k].raised})
                  + Len(Flatten([k \in 1..Len(log) |-> log[k].result.errors]))
            /\ Len(scan.sum.warnings) =
                  Len(Flatten([k \in 1..Len(log) |-> log[k].result.warnings]))

\* C17 witness: a returned scan in which one file's validation raised, another
\* file's result has two errors, and a third result has warnings
C17_Witness ==
    /\ ScanReturned
    /\ \E k \in 1..Len(scan.log) : scan.log[k].raised
    /\ \E k \in 1..Len(scan.log) : Len(scan.log[k].result.errors) >= 2
    /\ \E k \in 1..Len(scan.log) :
          scan.log[k].result.valid /\ scan.log[k].result.warnings # <<>>
    /\ Len(scan.sum.errors) >= 3
    /\ Len(scan.sum.warnings) >= 1

----------------------------------------------------------------------------
(* Properties of the reporter.                                             *)

\* the keyword table: the keywords of each row and the row's suggestion
KeywordTable ==
    <<[keys |-> {s_layout_width, s_layout_height},
       fix |-> "Especificar 'wrap_content', 'match_parent' o un valor dp especifico"],
      [keys |-> {s_duplicate}, fix |-> "Renombrar o eliminar IDs duplicados en el layout"],
      [keys |-> {s_syntax},
       fix |-> "Verificar que todas las etiquetas XML esten correctamente cerradas"],
      [keys |-> {s_color}, fix |-> "Usar formato hexadecimal valido: #RRGGBB o #AARRGGBB"],
      [keys |-> {s_resource},
       fix |-> "Verificar que el recurso referenciado existe en el proyecto"]>>

\* the rows whose keyword the error holds, whatever the case of its letters
MatchingRows(error) ==
    LET lower == Lower(error)
    IN  {r \in 1..Len(KeywordTable) : \E k \in KeywordTable[r].keys : IsSubstr(k, lower)}

\* the suggestion of the first matching row, the generic one when none matches
FirstMatch(error) ==
    IF MatchingRows(error) = {}
    THEN "Revisar la documentacion de Android para el elemento especifico"
    ELSE KeywordTable[CHOOSE r \in MatchingRows(error) :
                        \A q \in MatchingRows(error) : r <= q].fix

\* C18: suggest_fixes returns the suggestions of the errors' first matching
\* keywords, each once: no element is repeated, there are at most as many as
\* errors, and the result is empty exactly when the error list is
C18_SuggestionsFirstMatchDeduplicated ==
    fixes.pc = "done" =>
        LET errors == fixes.errors
            result == fixes.result
        IN  /\ {result[i] : i \in 1..Len(result)}
                  = {FirstMatch(errors[i]) : i \in 1..Len(errors)}
            /\ \A i, j \in 1..Len(result) : i # j => result[i] # result[j]
            /\ Len(result) <= Len(errors)
            /\ result = <<>> <=> errors = <<>>

\* C18 witness: three errors, two of them with the same first keyword and one
\* holding two keywords, gave two suggestions
C18_Witness ==
    /\ fixes.pc = "done"
    /\ Len(fixes.errors) = 3
    /\ Len(fixes.result) = 2
    /\ \E i \in 1..3 : Cardinality(MatchingRows(fixes.errors[i])) = 2
    /\ \E i, j \in 1..3 :
          /\ i # j
          /\ fixes.errors[i] # fixes.errors[j]
          /\ FirstMatch(fixes.errors[i]) = FirstMatch(fixes.errors[j])

\* the lines of the panels titled title, in the order they were printed
PrintedLines(out, title) ==
    LET IsPanel(it) == it.kind = "panel" /\ it.title = title
        panels == SelectSeq(out, IsPanel)
    IN  Flatten([i \in 1..Len(panels) |-> panels[i].lines])

\* the number of items of a kind (and, for notes, about a list) printed
PrintedCount(out, kind, titles) ==
    Cardinality({i \in 1..Len(out) : out[i].kind = kind /\ out[i].title \in titles})

\* C19: the report prints the first 10 errors, or all when there are fewer,
\* and likewise the warnings, in list order; the truncation note of a list
\* exactly when the list has more than 10 entries; the pass statement exactly
\* when invalid_files is 0 and the fail statement otherwise
C19_ReportTruncatesAtTenAndStatesOutcome ==
    report.pc = "done" =>
        LET r == report.results
            out == report.out
            First10(list) == SubSeq(list, 1, IF Len(list) > 10 THEN 10 ELSE Len(list))
            passes == Cardinality({i \in 1..Len(out) : out[i].kind = "success"})
            fails == Cardinality({i \in 1..Len(out) : out[i].kind = "error"})
        IN  /\ PrintedLines(out, "Errores") = First10(r.errors)
            /\ PrintedLines(out, "Advertencias") = First10(r.warnings)
            /\ PrintedCount(out, "info", {"errores"}) = IF Len(r.errors) > 10 THEN 1 ELSE 0
            /\ PrintedCount(out, "info", {"advertencias"})
                  = IF Len(r.warnings) > 10 THEN 1 ELSE 0
            /\ passes = IF r.invalid_files = 0 THEN 1 ELSE 0
            /\ fails = IF r.invalid_files = 0 THEN 0 ELSE 1

\* C19 witness: a summary with more than 10 errors, exactly 10 warnings and an
\* invalid file was shown: one note and the fail statement were printed
C19_Witness ==
    /\ report.pc = "done"
    /\ Len(report.results.errors) > 10
    /\ Len(report.results.warnings) = 10
    /\ report.results.invalid_files > 0
    /\ PrintedCount(report.out, "info", {"errores", "advertencias"}) = 1
    /\ report.out[Len(report.out)].kind = "error"

----------------------------------------------------------------------------
(* More properties of the rule sets.                                       *)

\* the number of android:id="@+id/x" of the text
DeclarationsOf(toks, x) ==
    Cardinality({i \in 1..Len(toks) :
                    toks[i].t = "id" /\ toks[i].p[1] = "+" /\ toks[i].p[2] = x})

\* the number of android:id="@id/x" (no '+') of the text
PlainIdsOf(toks, x) ==
    Cardinality({i \in 1..Len(toks) :
                    toks[i].t = "id" /\ toks[i].p[1] = "" /\ toks[i].p[2] = x})

\* the number of duplicate-ID errors of the result that name x
DupErrorsFor(t, x) ==
    Cardinality({i \in 1..Len(loc[t].result.errors) :
                    loc[t].result.errors[i] = [m |-> "ID duplicado", a |-> <<x>>]})

\* C21 as stated: only android:id="@+id/name" is counted: a name has a
\* duplicate-ID error exactly when more than one @+id/ attribute names it,
\* and an attribute written @id/name adds nothing to the count
C21_OnlyPlusIdDeclarationsCounted ==
    (Returned(Main) /\ HasContent(Main) /\ loc[Main].ruleset = "layout") =>
        \A x \in IdUniverse :
            DupErrorsFor(Main, x)
                = IF DeclarationsOf(loc[Main].content.toks, x) > 1 THEN 1 ELSE 0

\* C21 amended: android:id attributes written @+id/name and @id/name are
\* counted alike: a name has one duplicate-ID error exactly when the two
\* forms together name it more than once, so one @+id/btn and one @id/btn
\* yield one duplicate-ID error
C21_BothIdFormsCounted ==
    (Returned(Main) /\ HasContent(Main) /\ loc[Main].ruleset = "layout") =>
        \A x \in IdUniverse :
            LET toks == loc[Main].content.toks
            IN  /\ DupErrorsFor(Main, x)
                      = IF DeclarationsOf(toks, x) + PlainIdsOf(toks, x) > 1 THEN 1 ELSE 0
                /\ (DeclarationsOf(toks, x) = 1 /\ PlainIdsOf(toks, x) = 1)
                      => DupErrorsFor(Main, x) = 1

\* C21 witness: a layout with one android:id="@+id/a" and one
\* android:id="@id/a" has returned with one duplicate-ID error
C21_Witness ==
    /\ Returned(Main)
    /\ loc[Main].ruleset = "layout"
    /\ \E x \in IdUniverse :
          /\ DeclarationsOf(loc[Main].content.toks, x) = 1
          /\ PlainIdsOf(loc[Main].content.toks, x) = 1
          /\ DupErrorsFor(Main, x) = 1

\* the number of <uses-permission android:name="p" of the text
PermissionsOf(toks, p) ==
    Cardinality({i \in 1..Len(toks) : toks[i].t = "perm" /\ toks[i].p[1] = p})

\* C22: the manifest rule set adds one duplicate-permission warning when some
\* permission name occurs more than once, however many do and however often,
\* and none when all names are distinct; the warning has no part in valid
C22_OneWarningForDuplicatePermissions ==
    (Returned(Main) /\ HasContent(Main) /\ loc[Main].ruleset = "manifest") =>
        LET toks == loc[Main].content.toks
            repeated == \E i \in 1..Len(toks) :
                            toks[i].t = "perm" /\ PermissionsOf(toks, toks[i].p[1]) > 1
            warns == WithText(loc[Main].result.warnings, "Posibles permisos duplicados")
        IN  /\ Len(warns) = IF repeated THEN 1 ELSE 0
            /\ loc[Main].result.valid
                  <=> (/\ loc[Main].content.wf
                       /\ HasOpen(toks, "manifest")
                       /\ HasOpen(toks, "application"))

\* C22 witness: a manifest that names one permission three times has returned
\* valid, with one duplicate-permission warning
C22_Witness ==
    /\ Returned(Main)
    /\ loc[Main].ruleset = "manifest"
    /\ \E i \in 1..Len(loc[Main].content.toks) :
          /\ loc[Main].content.toks[i].t = "perm"
          /\ PermissionsOf(loc[Main].content.toks, loc[Main].content.toks[i].p[1]) = 3
    /\ Len(WithText(loc[Main].result.warnings, "Posibles permisos duplicados")) = 1
    /\ loc[Main].result.valid

\* the result validate_xml_file(path, arg) gives when the file at path is disk
ResultWith(path, arg, disk) == ValidateXmlFile(InitAcc, hashseed, path, arg, disk).l.result

\* C23: a call with content supplied does not open the file: its result is
\* the one it would give whatever the file at the path is (present with any
\* text, missing, unreadable); and a call that ended in the read-failure
\* return, which runs no rule set, was given no content
C23_SuppliedContentNeverOpensFile ==
    /\ (Returned(Main) /\ ~loc[Main].arg.none) =>
          /\ ~loc[Main].opened
          /\ loc[Main].content = loc[Main].arg
          /\ \A d \in Disks :
                loc[Main].result = ResultWith(loc[Main].path, loc[Main].arg, d)
    /\ (Returned(Main) /\ ~HasContent(Main)) =>
          /\ loc[Main].arg.none
          /\ loc[Main].opened
          /\ loc[Main].ruleset = "none"
          /\ loc[Main].result = [valid |-> FALSE, errors |-> <<Msg(ReadError)>>,
                                 warnings |-> <<>>]

\* C23 witness: a call with content supplied has returned a valid result
\* though the file at its path cannot be read
C23_Witness ==
    /\ Returned(Main)
    /\ ~loc[Main].arg.none
    /\ ~loc[Main].disk.readable
    /\ loc[Main].result.valid
    /\ loc[Main].ruleset = "layout"

----------------------------------------------------------------------------
(* More properties of validate_project_resources.                          *)

\* the accumulators of the instance the scan runs on
ScanAcc == acc[AccSlot(inst[Main])]

\* C24: at every point of a scan, each result stored in file_results, read
\* now, is the result its call returned, which is the result of its own file:
\* none of its lists is one of the instance's accumulators, which the later
\* calls clear and fill
C24_StoredResultsUnchangedByLaterCalls ==
    \A k \in 1..Len(scan.log) :
        ~scan.log[k].raised =>
            /\ scan.log[k].shares = {}
            /\ ResultsAt(scan.log[k].path) # {}
            /\ \A i \in ResultsAt(scan.log[k].path) :
                  LET now == Held(scan.sum.file_results[i].result, scan.log[k].shares, ScanAcc)
                  IN  /\ now = scan.log[k].result
                      /\ now = ResultWith(scan.log[k].path, NoneC, scan.log[k].disk)

\* C24 witness: the scan has returned; its first file's stored result has
\* errors, and the accumulators now hold the lists of a later file
C24_Witness ==
    /\ ScanReturned
    /\ Len(scan.log) >= 2
    /\ ~scan.log[1].raised
    /\ scan.log[1].result.errors # <<>>
    /\ ScanAcc.errors # scan.log[1].result.errors
    /\ \E i \in ResultsAt(scan.log[1].path) :
          scan.sum.file_results[i].result.errors = scan.log[1].result.errors

PassStatement == Item("success", "Todos los archivos XML son validos", 0, <<>>)

\* the report of the scan's summary has been printed
Reported == report.pc = "done"

\* the report's last line is the pass statement
PassPrinted == report.out[Len(report.out)] = PassStatement

\* C25 as stated: every returned summary has an empty errors list exactly
\* when invalid_files = 0, and the pass statement is never printed for a
\* summary with errors
C25_ErrorsEmptyIffNoInvalidFiles ==
    /\ ScanReturned => (scan.sum.errors = <<>> <=> scan.sum.invalid_files = 0)
    /\ Reported => ~(PassPrinted /\ report.results.errors # <<>>)

\* C25 amended: for a root that exists, the returned summary has an empty
\* errors list exactly when invalid_files = 0; for a root that does not
\* exist it has one error and invalid_files = 0; the pass statement is
\* printed exactly when invalid_files = 0, so for the missing root too
C25_ErrorsEmptyIffNoInvalidFilesOfExistingRoot ==
    /\ (ScanReturned /\ scan.exists) =>
          (scan.sum.errors = <<>> <=> scan.sum.invalid_files = 0)
    /\ (ScanReturned /\ ~scan.exists) =>
          /\ Len(scan.sum.errors) = 1
          /\ scan.sum.invalid_files = 0
    /\ Reported =>
          /\ report.results = scan.sum
          /\ PassPrinted <=> scan.sum.invalid_files = 0
          /\ scan.exists => (PassPrinted <=> scan.sum.errors = <<>>)
          /\ ~scan.exists => PassPrinted

\* C25 witness: the summary of a missing root has been reported: the errors
\* panel and the pass statement are both printed
C25_Witness ==
    /\ Reported
    /\ ~scan.exists
    /\ report.results.errors # <<>>
    /\ PassPrinted

----------------------------------------------------------------------------
(* Properties that join two checks.                                        *)

\* the warnings of thread t's result about the reference @+id/x
PlusIdWarnings(t, x) ==
    Cardinality({i \in 1..Len(loc[t].result.warnings) :
                    loc[t].result.warnings[i] =
                        [m |-> "Tipo de recurso posiblemente invalido",
                         a |-> <<"@", "+id", "/", x>>]})

\* C26: in a layout, the reference check takes every android:id="@+id/x" as a
\* reference of type "+id", not a known kind, and warns once per declaration;
\* so a layout with a declaration has warnings
C26_EveryIdDeclarationIsWarned ==
    (Returned(Main) /\ HasContent(Main) /\ loc[Main].ruleset = "layout") =>
        /\ "+id" \notin known_ref_types
        /\ \A x \in IdUniverse :
              PlusIdWarnings(Main, x) = DeclarationsOf(loc[Main].content.toks, x)
        /\ (\E x \in IdUniverse : DeclarationsOf(loc[Main].content.toks, x) > 0)
              => loc[Main].result.warnings # <<>>

\* C26 witness: a layout that declares one name twice and another once has
\* returned with three warnings about @+id/
C26_Witness ==
    /\ Returned(Main)
    /\ loc[Main].ruleset = "layout"
    /\ \E x, y \in IdUniverse :
          /\ x # y
          /\ DeclarationsOf(loc[Main].content.toks, x) = 2
          /\ DeclarationsOf(loc[Main].content.toks, y) = 1
          /\ PlusIdWarnings(Main, x) = 2
          /\ PlusIdWarnings(Main, y) = 1

\* the error strings the duplicate-ID check produces for the names of the model
DupIdTexts == {DupIdText(<<x>>) : x \in IdUniverse}

s_rename == "Renombrar o eliminar IDs duplicados en el layout"

\* C27: suggest_fixes maps every error string of the duplicate-ID check to
\* the rename-or-remove-duplicate-IDs suggestion, which is then in its result
C27_DuplicateIdErrorsGetRenameSuggestion ==
    fixes.pc = "done" =>
        \A i \in 1..Len(fixes.errors) :
            fixes.errors[i] \in DupIdTexts =>
                /\ SuggestionFor(fixes.errors[i]) = s_rename
                /\ \E j \in 1..Len(fixes.result) : fixes.result[j] = s_rename

----------------------------------------------------------------------------
(* Properties of the strings.xml rule set.                                 *)

\* thread t's call has returned from the rule set of a strings.xml
ReturnedStrings(t) ==
    /\ Returned(t)
    /\ HasContent(t)
    /\ loc[t].ruleset = "values"
    /\ PathName(loc[t].path) = s_strings_xml

\* a piece of text that is a tag, or starts with one
IsTag(tok) == tok.t \in {"open", "string", "color", "perm"}

UnescapedWarnings(t) ==
    Len(WithText(loc[t].result.warnings, "Posibles caracteres especiales sin escapar"))

\* C28: for strings.xml the unescaped-character check warns at most once,
\* and does when the content has a tag or a bare &, the escaped characters
\* apart; a well-formed document has a tag, so it is always warned
C28_EveryWellFormedStringsFileIsWarned ==
    ReturnedStrings(Main) =>
        LET toks == loc[Main].content.toks
        IN  /\ UnescapedWarnings(Main) <= 1
            /\ UnescapedWarnings(Main) = 1
                  <=> \E i \in 1..Len(toks) : IsTag(toks[i]) \/ toks[i].t = "amp"
            /\ loc[Main].content.wf => UnescapedWarnings(Main) = 1

\* C28 witness: a well-formed strings.xml whose only special characters in
\* text are escaped has returned valid, with the warning
C28_Witness ==
    /\ ReturnedStrings(Main)
    /\ loc[Main].content.wf
    /\ \E i \in 1..Len(loc[Main].content.toks) : loc[Main].content.toks[i].t = "entity"
    /\ \A i \in 1..Len(loc[Main].content.toks) : loc[Main].content.toks[i].t # "amp"
    /\ UnescapedWarnings(Main) = 1
    /\ loc[Main].result.valid

----------------------------------------------------------------------------
(* Properties of the file manager.                                         *)

\* the current or last call is write_file with create_backup=True on a file
\* that existed
GuardedWrite == fm.op = "write" /\ fm.create_backup /\ fm.old # "missing"

\* the backup failed and the user declined
Declined == fm.asked /\ ~fm.confirmed

\* C29: write_file with create_backup=True opens an existing file for writing
\* only after a backup of its text was made or the user confirmed; when the
\* backup fails and the user declines it returns False, and the file and the
\* history are as they were
C29_OverwriteOnlyAfterBackupOrConfirmation ==
    GuardedWrite =>
        /\ fm.wrote => (fm.backed \/ fm.confirmed)
        /\ fm.backed => fm.old \in fs.backups
        /\ fs.file # fm.old => fm.wrote
        /\ Declined =>
              /\ fm.pc = "idle"
              /\ fm.ret = FALSE
              /\ ~fm.wrote
              /\ fs.file = fm.old
              /\ fs.history = fm.history0

\* C29 witness: a write_file on an existing file whose backup failed has
\* returned False on the user's answer, the file as it was
C29_Witness ==
    /\ GuardedWrite
    /\ Declined
    /\ fm.pc = "idle"
    /\ fm.ret = FALSE
    /\ fs.file = fm.old

\* the last n elements of a list (history[-n:])
LastOf(list, n) ==
    IF Len(list) > n THEN SubSeq(list, Len(list) - n + 1, Len(list)) ELSE list

\* the history file lists what the run's successful calls and the earlier
\* runs added, oldest first, cut to the last HistoryLimit
HistoryIsRecentOps ==
    /\ fs.history.state # "corrupt"
    /\ Len(fs.history.entries) <= HistoryLimit
    /\ fs.history.entries = LastOf(fm.base \o fm.ops, HistoryLimit)

\* C30: after a sequence of write_file and restore_backup calls that all
\* returned True, the history holds at most 500 entries: the most recent
\* operations, in order, one per call, only the oldest dropped
C30_HistoryIsLastOperationsInOrder ==
    (fm.pc = "idle" /\ ~fm.failed) => HistoryIsRecentOps

====
